---- MODULE Spec2Model ----
(***************************************************************************)
(* Spreadsheet-backed record store of the club administration tool:        *)
(* the retrying request executor (GoogleSheetsManager._execute_with_retry) *)
(* and the Members, Events and Attendance record stores built on it.       *)
(***************************************************************************)
EXTENDS Integers, Sequences, FiniteSets, TLC

VARIABLES
    pc,           \* position of _execute_with_retry: idle, try, returned, raised
    max_retries,  \* argument max_retries of the running call
    delay,        \* argument delay of the running call
    attempt,      \* loop variable of "for attempt in range(max_retries + 1)"
    execCount,    \* number of request.execute() calls made by the running call
    sleeps,       \* arguments of the time.sleep() calls made, in order
    outcomes,     \* what request.execute() did on each call, in order
    result,       \* what the call returned or raised
    members,      \* rows of the Members tab (range Members!A:Q), row 1 first
    events,       \* rows of the Events tab (range Events!A:N)
    attendance,   \* rows of the Attendance tab (range Attendance!A:J)
    now,          \* the wall clock, in ticks
    calls,        \* number of AttendanceCRUD calls made so far
    last          \* the last record store operation: its name, outcome and branch

retryVars == <<pc, max_retries, delay, attempt, execCount, sleeps, outcomes, result>>

storeVars == <<members, events, attendance, now, calls, last>>

vars == <<pc, max_retries, delay, attempt, execCount, sleeps, outcomes, result,
          members, events, attendance, now, calls, last>>

(***************************************************************************)
(* Remote Table Client: _execute_with_retry                                *)
(***************************************************************************)

\* Default arguments of _execute_with_retry.
DefaultMaxRetries == 3
DefaultDelay == 1

\* Largest max_retries and delay a caller passes in the model.
MaxRetriesBound == 3
MaxDelay == 2

\* HTTP statuses request.execute() may fail with in the model.
HttpStatuses == {400, 403, 404, 429, 500, 501, 502, 503, 504, 599}

\* Responses a successful request.execute() may return.
Responses == {"resp_a", "resp_b"}

NoResult == [kind |-> "none", status |-> 0, val |-> "None", serial |-> 0]

\* A successful response, an HttpError and an exception that is no HttpError;
\* serial tells the error objects of different attempts apart.
OkOutcome(r, n) == [kind |-> "ok", status |-> 200, val |-> r, serial |-> n]
HttpError(s, n) == [kind |-> "http", status |-> s, val |-> "HttpError", serial |-> n]
OtherError(n) == [kind |-> "exc", status |-> 0, val |-> "Exception", serial |-> n]

ExecuteOutcomes(n) ==
    {OkOutcome(r, n) : r \in Responses}
        \cup {HttpError(s, n) : s \in HttpStatuses}
        \cup {OtherError(n)}

IsRateLimit_mut(s) == s \in {429, 403}
\* "if e.resp.status == 429"
IsRateLimit(s) == s = 429

ServerErrorStatuses_mut == {500, 503}
\* "elif e.resp.status in [500, 502, 503, 504]"
ServerErrorStatuses == {500, 502, 503, 504}

BackoffWait_mut(d, a) == d * (a + 1)
\* "wait_time = delay * (2 ** attempt)"
BackoffWait(d, a) == d * (2 ^ a)

OtherErrorRetried_mut(a, mr) == FALSE
\* "except Exception as e: if attempt == max_retries: raise", else sleep and go on
OtherErrorRetried(a, mr) == a # mr

IsLastAttempt_mut(a, mr) == FALSE
\* "if attempt == max_retries: ... raise"
IsLastAttempt(a, mr) == a = mr

\* The call: def _execute_with_retry(self, request, max_retries=3, delay=1.0)
execute_with_retry(mr, d) ==
    /\ pc = "idle"
    /\ pc' = "try"
    /\ max_retries' = mr
    /\ delay' = d
    /\ attempt' = 0
    /\ UNCHANGED <<execCount, sleeps, outcomes, result>>
    /\ UNCHANGED storeVars

\* What follows a time.sleep(w) at the end of an iteration: the next iteration,
\* or the end of the for loop, where the function falls off its end (None).
AfterSleep(w) ==
    /\ sleeps' = Append(sleeps, w)
    /\ attempt' = attempt + 1
    /\ IF attempt + 1 <= max_retries
       THEN /\ pc' = "try"
            /\ result' = result
       ELSE /\ pc' = "returned"
            /\ result' = NoResult

Raise(o) ==
    /\ pc' = "raised"
    /\ result' = o
    /\ UNCHANGED <<attempt, sleeps>>

\* One iteration of the for loop: request.execute() and its except clauses.
retry_attempt ==
    /\ pc = "try"
    /\ \E o \in ExecuteOutcomes(execCount + 1) :
        /\ execCount' = execCount + 1
        /\ outcomes' = Append(outcomes, o)
        /\ UNCHANGED <<max_retries, delay>>
        /\ UNCHANGED storeVars
        /\ CASE o.kind = "ok" ->
                    /\ pc' = "returned"
                    /\ result' = o
                    /\ UNCHANGED <<attempt, sleeps>>
             [] o.kind = "http" ->
                    IF IsLastAttempt(attempt, max_retries)
                    THEN Raise(o)
                    ELSE IF IsRateLimit(o.status)
                    THEN AfterSleep(BackoffWait(delay, attempt))
                    ELSE IF o.status \in ServerErrorStatuses
                    THEN AfterSleep(BackoffWait(delay, attempt))
                    ELSE Raise(o)
             [] OTHER ->
                    IF OtherErrorRetried(attempt, max_retries)
                    THEN AfterSleep(delay)
                    ELSE Raise(o)

\* No request is running.
RetryIdle ==
    /\ pc = "idle"
    /\ max_retries = DefaultMaxRetries
    /\ delay = DefaultDelay
    /\ attempt = 0
    /\ execCount = 0
    /\ sleeps = <<>>
    /\ outcomes = <<>>
    /\ result = NoResult

\* The three tabs are empty and no operation has run.
StoreEmpty ==
    /\ members = <<>>
    /\ events = <<>>
    /\ attendance = <<>>
    /\ now = 0
    /\ calls = 0
    /\ last = [op |-> "none", ret |-> FALSE, why |-> "none"]

InitRetry == RetryIdle /\ StoreEmpty

NextRetry ==
    \/ \E mr \in 0..MaxRetriesBound, d \in 1..MaxDelay : execute_with_retry(mr, d)
    \/ retry_attempt

SpecRetry == InitRetry /\ [][NextRetry]_vars

(***************************************************************************)
(* Properties of _execute_with_retry                                       *)
(***************************************************************************)

Is429(o) == o.kind = "http" /\ o.status = 429

\* The waits delay * 2^i for i = 0 .. k-1.
DoublingWaits(k) == [i \in 1..k |-> delay * (2 ^ (i - 1))]

\* C1: a request that fails k <= max_retries times with HTTP 429 and then
\* succeeds is executed k+1 times, the call sleeps delay*2^i before retry i
\* (i = 0..k-1) and returns the successful response unchanged; while only 429s
\* have been seen and the budget is not used up, the call keeps trying.
C1_RateLimitThenSuccess ==
    LET n == Len(outcomes) IN
    /\ (pc # "idle" /\ n <= max_retries /\ \A i \in 1..n : Is429(outcomes[i]))
            => /\ pc = "try"
               /\ execCount = n
               /\ sleeps = DoublingWaits(n)
    /\ (n >= 1 /\ n - 1 <= max_retries /\ outcomes[n].kind = "ok"
            /\ \A i \in 1..(n - 1) : Is429(outcomes[i]))
            => /\ pc = "returned"
               /\ execCount = n
               /\ sleeps = DoublingWaits(n - 1)
               /\ result = outcomes[n]
               /\ result.val \in Responses

\* C1 witness: with the defaults, three 429s then a success: waits 1, 2, 4.
C1_Witness ==
    /\ pc = "returned"
    /\ max_retries = 3 /\ delay = 1
    /\ Len(outcomes) = 4
    /\ \A i \in 1..3 : Is429(outcomes[i])
    /\ outcomes[4].kind = "ok"
    /\ sleeps = <<1, 2, 4>>

\* C2: a request whose first failure is an HTTP error with a status that is
\* neither 429 nor a server error (5xx) is executed exactly once, the call
\* never sleeps and raises that error.
C2_PermissionErrorNoRetry ==
    (Len(outcomes) >= 1 /\ outcomes[1].kind = "http"
        /\ outcomes[1].status \notin ({429} \cup 500..599))
        => /\ pc = "raised"
           /\ execCount = 1
           /\ Len(outcomes) = 1
           /\ sleeps = <<>>
           /\ result = outcomes[1]

C2_Witness ==
    /\ pc = "raised"
    /\ max_retries = 3
    /\ outcomes = <<HttpError(403, 1)>>
    /\ result = HttpError(403, 1)

NotTransientClass(o) ==
    \/ o.kind = "exc"
    \/ o.kind = "http" /\ o.status \notin ({429} \cup 500..599)

\* C3 as stated: every failure that is neither a rate-limit nor a server error,
\* an exception that is no HTTP error included, is raised at once: one
\* execution, no sleep.
C3_Original ==
    (Len(outcomes) >= 1 /\ NotTransientClass(outcomes[1]))
        => /\ pc = "raised"
           /\ execCount = 1
           /\ sleeps = <<>>

\* C3 as amended: an HTTP error whose status is not 429, 500, 502, 503 or 504
\* is raised by the attempt that met it, with no sleep and no further
\* execution; an exception that is no HTTP error is retried after a constant
\* wait of delay while the budget lasts, and raised on the last attempt.
C3_OnlyOtherHttpStatusesFailFast ==
    LET n == Len(outcomes) IN
    n >= 1 =>
        /\ (outcomes[n].kind = "http"
                /\ outcomes[n].status \notin {429, 500, 502, 503, 504})
            => /\ pc = "raised"
               /\ result = outcomes[n]
               /\ execCount = n
               /\ Len(sleeps) = n - 1
        /\ (outcomes[n].kind = "exc" /\ n <= max_retries)
            => /\ pc = "try"
               /\ Len(sleeps) = n
               /\ sleeps[n] = delay
        /\ (outcomes[n].kind = "exc" /\ n = max_retries + 1)
            => /\ pc = "raised"
               /\ result = outcomes[n]

\* C3 witness: a 404 on the first attempt is raised, and an exception that is
\* no HTTP error has been retried after a wait of delay.
C3_Witness ==
    /\ Len(outcomes) = 2
    /\ outcomes[1].kind = "exc"
    /\ outcomes[2] = HttpError(404, 2)
    /\ pc = "raised"
    /\ sleeps = <<delay>>

TransientError(o) == o.kind = "http" /\ o.status \in {429, 500, 502, 503, 504}

\* C5: the call makes at most max_retries + 1 executions; a request that fails
\* with a transient error on every attempt is executed exactly max_retries + 1
\* times and the call then raises the error of the last attempt; the call
\* returns only the response of a successful execution.
C5_ExhaustedBudgetRaisesLastError ==
    LET n == Len(outcomes) IN
    pc # "idle" =>
        /\ execCount = n
        /\ execCount <= max_retries + 1
        /\ pc = "try" => attempt = execCount /\ attempt <= max_retries
        /\ (n = max_retries + 1 /\ \A i \in 1..n : TransientError(outcomes[i]))
            => /\ pc = "raised"
               /\ result = outcomes[n]
               /\ result.serial = max_retries + 1
        /\ pc = "returned" => n >= 1 /\ outcomes[n].kind = "ok" /\ result = outcomes[n]
        /\ pc \in {"try", "returned", "raised"}

\* C5 witness: with the default budget, four transient failures, then the raise.
C5_Witness ==
    /\ pc = "raised"
    /\ max_retries = 3
    /\ execCount = 4
    /\ \A i \in 1..4 : TransientError(outcomes[i])
    /\ result = outcomes[4]

(***************************************************************************)
(* The remote table and the clock                                          *)
(***************************************************************************)

\* Number of clock ticks, and the most rows each tab holds in the model.
MaxClock == 1
MaxMemberRows == 3
MaxEventRows == 2
MaxAttendanceRows == 3

\* Most AttendanceCRUD calls in one behaviour of the model.
MaxCalls == 2

\* Python's None, for an optional string field; never the content of a cell.
None == "<None>"

\* Python's "x or d" on an optional string.
Or(x, d) == IF x = None \/ x = "" THEN d ELSE x

\* "x if x else None" on a cell.
OrNone(x) == IF x = "" THEN None ELSE x

\* datetime.now() at tick t is 2024-03-20 18:0t:0t.
\* datetime.now().isoformat()
IsoFormat(t) == "2024-03-20T18:0" \o ToString(t) \o ":0" \o ToString(t)
\* datetime.now().strftime("%Y%m%d%H%M%S")
IdStamp(t) == "20240320180" \o ToString(t) \o "0" \o ToString(t)
\* datetime.now().strftime("%H:%M")
ClockHM(t) == "18:0" \o ToString(t)

\* The clock moves on between two operations.
Tick ==
    /\ now < MaxClock
    /\ now' = now + 1
    /\ UNCHANGED <<members, events, attendance, calls, last>>
    /\ UNCHANGED retryVars

\* A row of a tab as the values API returns it: a sequence of cells, <<>> for
\* an empty row. Rows after the last non-empty row are not returned.
BlankRow == <<>>

RECURSIVE TrimBlankRows(_)
TrimBlankRows(sheet) ==
    IF sheet # <<>> /\ sheet[Len(sheet)] = BlankRow
    THEN TrimBlankRows(SubSeq(sheet, 1, Len(sheet) - 1))
    ELSE sheet

\* values().append(..., insertDataOption='INSERT_ROWS'): the row goes below
\* the last row that holds data.
AppendRow(sheet, row) == Append(sheet, row)

\* values().update(range="<Tab>!A{n}:..{n}"): row n is overwritten.
UpdateRow(sheet, n, row) ==
    [i \in 1..(IF n > Len(sheet) THEN n ELSE Len(sheet)) |->
        IF i = n THEN row ELSE IF i <= Len(sheet) THEN sheet[i] ELSE BlankRow]

\* values().clear(range="<Tab>!A{n}:..{n}"): row n is emptied in place.
ClearRow(sheet, n) ==
    TrimBlankRows([i \in 1..Len(sheet) |-> IF i = n THEN BlankRow ELSE sheet[i]])

\* "while len(row) < n: row.append('')"
RECURSIVE Pad(_, _)
Pad(row, n) == IF Len(row) < n THEN Pad(Append(row, ""), n) ELSE row

\* Column A of a tab (range "<Tab>!A:A"): one cell per row, none for a row
\* whose first cell is empty.
ColumnA(sheet) ==
    [i \in 1..Len(sheet) |-> IF sheet[i] = BlankRow \/ sheet[i][1] = ""
                             THEN <<>> ELSE <<sheet[i][1]>>]

FirstMatch_mut(col, id) ==
    IF \E i \in 1..Len(col) : col[i] # <<>> /\ col[i][1] = id
    THEN (CHOOSE i \in 1..Len(col) : col[i] # <<>> /\ col[i][1] = id /\
              \A j \in (i + 1)..Len(col) : ~(col[j] # <<>> /\ col[j][1] = id)) - 1
    ELSE 0
\* "for i, row in enumerate(values): if row and len(row) > 0 and row[0] == id:
\*  return i + 1", 0 standing for None.
FirstMatch(col, id) ==
    IF \E i \in 1..Len(col) : col[i] # <<>> /\ col[i][1] = id
    THEN CHOOSE i \in 1..Len(col) :
            /\ col[i] # <<>> /\ col[i][1] = id
            /\ \A j \in 1..(i - 1) : ~(col[j] # <<>> /\ col[j][1] = id)
    ELSE 0

\* initialize_sheet on a tab whose canonical header row is headers, every
\* remote call succeeding: "if not values or values[0][0] != <first label>"
\* the header row is written over row 1, otherwise nothing is written.
InitializeSheet_mut(sheet, headers) ==
    IF sheet = <<>> \/ sheet[1] = BlankRow \/ sheet[1][1] # headers[1]
    THEN [ret |-> TRUE, why |-> "written", sheet |-> <<headers>> \o sheet]
    ELSE [ret |-> TRUE, why |-> "kept", sheet |-> sheet]
InitializeSheet(sheet, headers) ==
    IF sheet = <<>> \/ sheet[1] = BlankRow \/ sheet[1][1] # headers[1]
    THEN [ret |-> TRUE, why |-> "written", sheet |-> UpdateRow(sheet, 1, headers)]
    ELSE [ret |-> TRUE, why |-> "kept", sheet |-> sheet]

(***************************************************************************)
(* Entity Models: Member                                                   *)
(***************************************************************************)

MemberHeaders ==
    <<"Member ID", "First Name", "Last Name", "Email", "Phone",
      "Wix User ID", "Role", "Membership Status", "Payment Status",
      "Join Date", "Graduation Year", "Major", "Emergency Contact",
      "Emergency Phone", "Notes", "Created At", "Updated At">>

\* re.match of the e-mail pattern, on the addresses of the model.
is_valid_email(s) == s \in {"ann@berkeley.edu", "bob@berkeley.edu"}

\* 10 or 11 digits after re.sub(r'\D', '', phone), on the numbers of the model.
is_valid_phone(s) == s \in {"555-123-4567", "15551234567"}

\* Member._validate
MemberValid(m) ==
    /\ m.member_id # "" /\ m.member_id # None
    /\ m.first_name # "" /\ m.last_name # ""
    /\ is_valid_email(m.email)
    /\ is_valid_phone(m.phone)
    /\ m.role \in {"member", "exec"}
    /\ m.membership_status \in {"active", "inactive", "suspended"}
    /\ m.payment_status \in {"paid", "pending", "overdue"}

MemberPostInit_mut(m, t) ==
    [m EXCEPT !.created_at = IsoFormat(t), !.updated_at = IsoFormat(t)]
\* Member.__post_init__ at tick t, after _validate passed.
MemberPostInit(m, t) ==
    [m EXCEPT !.created_at = Or(m.created_at, IsoFormat(t)),
              !.updated_at = IsoFormat(t)]

\* Member.to_sheet_row
MemberToRow(m) ==
    <<m.member_id, m.first_name, m.last_name, m.email, m.phone,
      Or(m.wix_user_id, ""), m.role, m.membership_status, m.payment_status,
      Or(m.join_date, ""), Or(m.graduation_year, ""), Or(m.major, ""),
      Or(m.emergency_contact, ""), Or(m.emergency_phone, ""),
      Or(m.notes, ""), Or(m.created_at, ""), Or(m.updated_at, "")>>

\* The arguments Member.from_sheet_row passes to the constructor.
MemberRowFields(row) ==
    LET r == Pad(row, 17) IN
    [member_id |-> r[1], first_name |-> r[2], last_name |-> r[3],
     email |-> r[4], phone |-> r[5], wix_user_id |-> OrNone(r[6]),
     role |-> Or(r[7], "member"), membership_status |-> Or(r[8], "active"),
     payment_status |-> Or(r[9], "pending"), join_date |-> OrNone(r[10]),
     graduation_year |-> OrNone(r[11]), major |-> OrNone(r[12]),
     emergency_contact |-> OrNone(r[13]), emergency_phone |-> OrNone(r[14]),
     notes |-> OrNone(r[15]), created_at |-> OrNone(r[16]),
     updated_at |-> OrNone(r[17])]

\* Member.from_sheet_row raises when the constructor's validation fails.
MemberRowParses(row) == MemberValid(MemberRowFields(row))

\* Member.from_sheet_row at tick t, for a row that parses.
MemberFromRow(row, t) == MemberPostInit(MemberRowFields(row), t)

\* generate_member_id at tick t
generate_member_id(t) == "MBR_" \o IdStamp(t)

\* A Member as a caller constructs it at tick t: Member(member_id=id,
\* first_name=fn, ..., role=r) with the other arguments at their defaults.
NewMember(id, fn, r, t) ==
    MemberPostInit(
        [member_id |-> id, first_name |-> fn, last_name |-> "Lee",
         email |-> "ann@berkeley.edu", phone |-> "555-123-4567",
         wix_user_id |-> None, role |-> r, membership_status |-> "active",
         payment_status |-> "pending", join_date |-> None,
         graduation_year |-> "2025", major |-> None,
         emergency_contact |-> None, emergency_phone |-> None,
         notes |-> None, created_at |-> None, updated_at |-> None], t)

FirstNames == {"Ann", "Bob"}
Roles == {"member", "exec"}

\* The identifiers generate_member_id has handed out up to tick t.
MemberIdsUpTo(t) == {generate_member_id(u) : u \in 0..t}

(***************************************************************************)
(* Record Store: MembersCRUD                                               *)
(***************************************************************************)

\* MembersCRUD.get_all_members at tick t, the read succeeding. A first row
\* without cells makes row[0] raise, and the outer except returns [].
RECURSIVE ParseMembers(_, _)
ParseMembers(rows, t) ==
    IF rows = <<>> THEN <<>>
    ELSE IF MemberRowParses(rows[1])
    THEN <<MemberFromRow(rows[1], t)>> \o ParseMembers(Tail(rows), t)
    ELSE ParseMembers(Tail(rows), t)

get_all_members(sheet, t) ==
    IF sheet = <<>> THEN <<>>
    ELSE IF sheet[1] = BlankRow THEN <<>>
    ELSE IF sheet[1][1] = "Member ID" THEN ParseMembers(Tail(sheet), t)
    ELSE ParseMembers(sheet, t)

get_member_by_id_mut(sheet, id, t) == <<>>
\* MembersCRUD.get_member_by_id: <<m>> for the first member with the id, <<>>
\* for None.
get_member_by_id(sheet, id, t) ==
    LET all == get_all_members(sheet, t)
        hits == {i \in 1..Len(all) : all[i].member_id = id} IN
    IF hits = {} THEN <<>>
    ELSE <<all[CHOOSE i \in hits : \A j \in hits : i <= j]>>

\* MembersCRUD._find_member_row, 0 for None.
find_member_row(sheet, id) == FirstMatch(ColumnA(sheet), id)

\* MembersCRUD.create_member(m) on a tab at tick t, every remote call
\* succeeding: what it returns, the branch taken and the tab after it.
CreateMember(sheet, m, t) ==
    IF get_member_by_id(sheet, m.member_id, t) # <<>>
    THEN [ret |-> FALSE, why |-> "exists", sheet |-> sheet]
    ELSE [ret |-> TRUE, why |-> "appended",
          sheet |-> AppendRow(sheet, MemberToRow(m))]

create_member(m) ==
    LET r == CreateMember(members, m, now) IN
    /\ Len(r.sheet) <= MaxMemberRows
    /\ members' = r.sheet
    /\ last' = [op |-> "create_member", ret |-> r.ret, why |-> r.why]
    /\ UNCHANGED <<events, attendance, now>>
    /\ UNCHANGED retryVars

\* MembersCRUD.initialize_sheet, every remote call succeeding.
initialize_members_sheet ==
    /\ LET r == InitializeSheet(members, MemberHeaders) IN
        /\ members' = r.sheet
        /\ last' = [op |-> "initialize_sheet", ret |-> r.ret, why |-> r.why]
    /\ UNCHANGED <<events, attendance, now>>
    /\ UNCHANGED retryVars

UpdateMember_mut(sheet, m, t) ==
    LET n == find_member_row(sheet, m.member_id) IN
    [ret |-> TRUE, why |-> "updated",
     sheet |-> UpdateRow(sheet, IF n = 0 THEN Len(sheet) + 1 ELSE n,
                         MemberToRow([m EXCEPT !.updated_at = IsoFormat(t)]))]
\* MembersCRUD.update_member(m) on a tab at tick t, every remote call
\* succeeding: the first row whose column A holds m.member_id is rewritten.
UpdateMember(sheet, m, t) ==
    LET n == find_member_row(sheet, m.member_id) IN
    IF n = 0
    THEN [ret |-> FALSE, why |-> "no row", sheet |-> sheet]
    ELSE [ret |-> TRUE, why |-> "updated",
          sheet |-> UpdateRow(sheet, n,
                        MemberToRow([m EXCEPT !.updated_at = IsoFormat(t)]))]

DeleteMember_mut(sheet, id, t) ==
    LET n == find_member_row(sheet, id) IN
    IF n = 0
    THEN [ret |-> FALSE, why |-> "not found", sheet |-> sheet]
    ELSE [ret |-> TRUE, why |-> "cleared", sheet |-> ClearRow(sheet, n)]
\* MembersCRUD.delete_member(id) on a tab at tick t, every remote call
\* succeeding: the member is marked inactive and saved with update_member.
DeleteMember(sheet, id, t) ==
    LET found == get_member_by_id(sheet, id, t) IN
    IF found = <<>>
    THEN [ret |-> FALSE, why |-> "not found", sheet |-> sheet]
    ELSE UpdateMember(sheet, [found[1] EXCEPT !.membership_status = "inactive",
                                              !.updated_at = IsoFormat(t)], t)

\* The members a caller passes to update_member at tick t: a member read from
\* the tab with its payment_status set to paid, or a member made by the caller.
UpdateMemberInputs(sheet, t) ==
    LET all == get_all_members(sheet, t) IN
    {[all[i] EXCEPT !.payment_status = "paid"] : i \in 1..Len(all)}
        \cup {NewMember(id, "Bob", "exec", t) : id \in MemberIdsUpTo(t)}

update_member(m) ==
    LET r == UpdateMember(members, m, now) IN
    /\ members' = r.sheet
    /\ last' = [op |-> "update_member", ret |-> r.ret, why |-> r.why]
    /\ UNCHANGED <<events, attendance, now>>
    /\ UNCHANGED retryVars

delete_member(id) ==
    LET r == DeleteMember(members, id, now) IN
    /\ members' = r.sheet
    /\ last' = [op |-> "delete_member", ret |-> r.ret, why |-> r.why]
    /\ UNCHANGED <<events, attendance, now>>
    /\ UNCHANGED retryVars

InitMembers == RetryIdle /\ StoreEmpty

NextMembers ==
    \/ Tick
    \/ \E id \in MemberIdsUpTo(now), fn \in FirstNames, r \in Roles :
            create_member(NewMember(id, fn, r, now)) /\ UNCHANGED calls
    \/ initialize_members_sheet /\ UNCHANGED calls

SpecMembers == InitMembers /\ [][NextMembers]_vars

\* Every operation of MembersCRUD that writes, by one sequential caller.
NextMemberUpdates ==
    \/ \E id \in MemberIdsUpTo(now), fn \in FirstNames, r \in Roles :
            create_member(NewMember(id, fn, r, now))
    \/ \E m \in UpdateMemberInputs(members, now) : update_member(m)
    \/ \E id \in MemberIdsUpTo(now) : delete_member(id)
    \/ initialize_members_sheet

\* The data rows of the Members tab that hold the member_id.
MemberRowsOf(id) == {i \in 1..Len(members) : members[i] # BlankRow /\ members[i][1] = id}

\* C6: in every state each member_id is in at most one row of the Members
\* tab; create_member on a member_id that is stored returns False and leaves
\* the tab as it is, and on a member_id that is not stored it returns True and
\* appends the member's row.
C6_DuplicateMemberRejected ==
    /\ \A id \in MemberIdsUpTo(MaxClock) : Cardinality(MemberRowsOf(id)) <= 1
    /\ \A id \in MemberIdsUpTo(MaxClock), fn \in FirstNames, r \in Roles :
        LET m == NewMember(id, fn, r, now)
            res == CreateMember(members, m, now) IN
        IF MemberRowsOf(id) # {}
        THEN res.ret = FALSE /\ res.sheet = members
        ELSE /\ res.ret = TRUE
             /\ res.sheet = Append(members, MemberToRow(m))
             /\ res.sheet[Len(res.sheet)][1] = id

\* C6 witness: a create_member was refused for a stored member_id.
C6_Witness ==
    /\ last.op = "create_member" /\ last.ret = FALSE /\ last.why = "exists"
    /\ \E id \in MemberIdsUpTo(MaxClock) : Cardinality(MemberRowsOf(id)) = 1
    /\ Len(members) >= 2

(***************************************************************************)
(* Entity Models: Event                                                    *)
(***************************************************************************)

EventHeaders ==
    <<"Event ID", "Event Name", "Event Type", "Event Date", "Start Time",
      "End Time", "Location", "Description", "Is Mandatory", "Max Attendees",
      "Created By", "Status", "Created At", "Updated At">>

\* Python's None, for the optional integer max_attendees.
NoneInt == -1

\* datetime.strptime(s, "%H:%M") as minutes after midnight, on the strings of
\* the model; -1 stands for ValueError. strptime takes one-digit fields.
ParseHM(s) ==
    CASE s = "00:00" -> 0
      [] s = "18:00" -> 1080
      [] s = "18:01" -> 1081
      [] s = "18:02" -> 1082
      [] s = "18:03" -> 1083
      [] s = "19:00" -> 1140
      [] s = "20:00" -> 1200
      [] s = "21:00" -> 1260
      [] s = "23:59" -> 1439
      [] OTHER -> -1

\* datetime.strptime(s, "%Y-%m-%d") as a day number, on the strings of the
\* model; -1 stands for ValueError. strptime takes one-digit month and day.
ParseDate(s) ==
    CASE s = "2024-03-20" -> 20240320
      [] s = "2024-3-20" -> 20240320
      [] s = "2024-03-21" -> 20240321
      [] OTHER -> -1

\* Event._validate
EventValid(e) ==
    /\ e.event_id # "" /\ e.event_id # None
    /\ e.event_name # ""
    /\ e.event_type \in {"practice", "game", "meeting", "social"}
    /\ ParseDate(e.event_date) # -1
    /\ ParseHM(e.start_time) # -1 /\ ParseHM(e.end_time) # -1
    /\ e.status \in {"scheduled", "cancelled", "completed"}

\* Event.__post_init__ at tick t, after _validate passed.
EventPostInit(e, t) ==
    [e EXCEPT !.created_at = Or(e.created_at, IsoFormat(t)),
              !.updated_at = IsoFormat(t)]

\* str(n) and str.isdigit / int on the attendee counts of the model.
AttendeeCounts == {0, 25}
IsDigits(s) == \E n \in AttendeeCounts : ToString(n) = s
ParseInt(s) == CHOOSE n \in AttendeeCounts : ToString(n) = s

\* Event.to_sheet_row
EventToRow(e) ==
    <<e.event_id, e.event_name, e.event_type, e.event_date, e.start_time,
      e.end_time, e.location, Or(e.description, ""),
      IF e.is_mandatory THEN "true" ELSE "false",
      IF e.max_attendees # NoneInt /\ e.max_attendees # 0
      THEN ToString(e.max_attendees) ELSE "",
      e.created_by, e.status, Or(e.created_at, ""), Or(e.updated_at, "")>>

\* The arguments Event.from_sheet_row passes to the constructor.
EventRowFields(row) ==
    LET r == Pad(row, 14) IN
    [event_id |-> r[1], event_name |-> r[2], event_type |-> r[3],
     event_date |-> r[4], start_time |-> r[5], end_time |-> r[6],
     location |-> r[7], description |-> OrNone(r[8]),
     is_mandatory |-> (r[9] \in {"true", "True", "TRUE"}),
     max_attendees |-> IF r[10] # "" /\ IsDigits(r[10]) THEN ParseInt(r[10])
                       ELSE NoneInt,
     created_by |-> r[11], status |-> Or(r[12], "scheduled"),
     created_at |-> OrNone(r[13]), updated_at |-> OrNone(r[14])]

\* Event.from_sheet_row raises when the constructor's validation fails.
EventRowParses(row) == EventValid(EventRowFields(row))

\* Event.from_sheet_row at tick t, for a row that parses.
EventFromRow(row, t) == EventPostInit(EventRowFields(row), t)

\* generate_event_id at tick t
generate_event_id(t) == "EVT_" \o IdStamp(t)

\* An Event as a caller constructs it at tick t: Event(event_id=id,
\* event_date=d, start_time=w[1], end_time=w[2], status=st, ...).
NewEvent(id, d, w, st, t) ==
    EventPostInit(
        [event_id |-> id, event_name |-> "Practice", event_type |-> "practice",
         event_date |-> d, start_time |-> w[1], end_time |-> w[2],
         location |-> "Field", description |-> None, is_mandatory |-> TRUE,
         max_attendees |-> 25, created_by |-> "", status |-> st,
         created_at |-> None, updated_at |-> None], t)

\* Two event_date strings Event._validate accepts; strptime reads both as
\* 20 March 2024.
EventDates == {"2024-03-20", "2024-3-20"}
\* 18:00-20:00 overlaps 19:00-21:00, which holds 20:00-21:00; the first and
\* the last only touch.
EventWindows == {<<"18:00", "20:00">>, <<"19:00", "21:00">>, <<"20:00", "21:00">>}
NewEventStatuses == {"scheduled", "completed"}

\* The event_date, window and status of the events the callers of the model
\* create.
EventInputs ==
    {x \in EventDates \X EventWindows \X NewEventStatuses :
        /\ x[3] = "completed" <=> x[2][1] = "19:00"
        /\ x[1] = "2024-3-20" => x[2][1] = "19:00"}

\* The identifiers generate_event_id handed out to the callers of the model.
EventIds == {generate_event_id(u) : u \in 0..2}

(***************************************************************************)
(* Record Store: EventsCRUD                                                *)
(***************************************************************************)

RECURSIVE ParseEvents(_, _)
ParseEvents(rows, t) ==
    IF rows = <<>> THEN <<>>
    ELSE IF EventRowParses(rows[1])
    THEN <<EventFromRow(rows[1], t)>> \o ParseEvents(Tail(rows), t)
    ELSE ParseEvents(Tail(rows), t)

\* EventsCRUD.get_all_events at tick t, the read succeeding. A first row
\* without cells makes row[0] raise, and the outer except returns [].
get_all_events(sheet, t) ==
    IF sheet = <<>> THEN <<>>
    ELSE IF sheet[1] = BlankRow THEN <<>>
    ELSE IF sheet[1][1] = "Event ID" THEN ParseEvents(Tail(sheet), t)
    ELSE ParseEvents(sheet, t)

get_event_by_id_mut(sheet, id, t) == <<>>
\* EventsCRUD.get_event_by_id: <<e>> for the first event with the id, <<>> for
\* None.
get_event_by_id(sheet, id, t) ==
    LET all == get_all_events(sheet, t)
        hits == {i \in 1..Len(all) : all[i].event_id = id} IN
    IF hits = {} THEN <<>>
    ELSE <<all[CHOOSE i \in hits : \A j \in hits : i <= j]>>

\* EventsCRUD._find_event_row, 0 for None.
find_event_row(sheet, id) == FirstMatch(ColumnA(sheet), id)

\* EventsCRUD.get_events_by_date: "e.event_date == event_date" on the strings.
get_events_by_date(sheet, d, t) ==
    LET all == get_all_events(sheet, t) IN
    {all[i] : i \in {j \in 1..Len(all) : all[j].event_date = d}}

TimesOverlap_mut(ns, ne, xs, xe) == ns <= xe /\ ne >= xs
\* "if (new_start < existing_end and new_end > existing_start)"
TimesOverlap(ns, ne, xs, xe) == ns < xe /\ ne > xs

SkipsEvent_mut(e) == e.status # "scheduled"
\* "if event.status == 'cancelled': continue"
SkipsEvent(e) == e.status = "cancelled"

\* EventsCRUD._check_event_conflict, the read succeeding.
check_event_conflict(sheet, new, t) ==
    \E e \in get_events_by_date(sheet, new.event_date, t) :
        /\ ~SkipsEvent(e)
        /\ TimesOverlap(ParseHM(new.start_time), ParseHM(new.end_time),
                        ParseHM(e.start_time), ParseHM(e.end_time))

\* EventsCRUD.create_event(e) on a tab at tick t, every remote call
\* succeeding: what it returns, the branch taken and the tab after it.
CreateEvent(sheet, e, t) ==
    IF get_event_by_id(sheet, e.event_id, t) # <<>>
    THEN [ret |-> FALSE, why |-> "exists", sheet |-> sheet]
    ELSE IF check_event_conflict(sheet, e, t)
    THEN [ret |-> FALSE, why |-> "conflict", sheet |-> sheet]
    ELSE [ret |-> TRUE, why |-> "appended",
          sheet |-> AppendRow(sheet, EventToRow(e))]

create_event(e) ==
    LET r == CreateEvent(events, e, now) IN
    /\ Len(r.sheet) <= MaxEventRows
    /\ events' = r.sheet
    /\ last' = [op |-> "create_event", ret |-> r.ret, why |-> r.why]
    /\ UNCHANGED <<members, attendance, now>>
    /\ UNCHANGED retryVars

\* EventsCRUD.update_event(e) on a tab at tick t, every remote call succeeding.
UpdateEvent_mut(sheet, e, t) ==
    LET n == find_event_row(sheet, e.event_id) IN
    IF n = 0 \/ check_event_conflict(sheet, e, t)
    THEN [ret |-> FALSE, why |-> "no row", sheet |-> sheet]
    ELSE [ret |-> TRUE, why |-> "updated",
          sheet |-> UpdateRow(sheet, n,
                        EventToRow([e EXCEPT !.updated_at = IsoFormat(t)]))]
UpdateEvent(sheet, e, t) ==
    LET n == find_event_row(sheet, e.event_id) IN
    IF n = 0
    THEN [ret |-> FALSE, why |-> "no row", sheet |-> sheet]
    ELSE [ret |-> TRUE, why |-> "updated",
          sheet |-> UpdateRow(sheet, n,
                        EventToRow([e EXCEPT !.updated_at = IsoFormat(t)]))]

\* EventsCRUD.delete_event(id) on a tab at tick t, every remote call succeeding.
DeleteEvent(sheet, id, t) ==
    LET found == get_event_by_id(sheet, id, t) IN
    IF found = <<>>
    THEN [ret |-> FALSE, why |-> "not found", sheet |-> sheet]
    ELSE UpdateEvent(sheet, [found[1] EXCEPT !.status = "cancelled",
                                            !.updated_at = IsoFormat(t)], t)

delete_event(id) ==
    LET r == DeleteEvent(events, id, now) IN
    /\ events' = r.sheet
    /\ last' = [op |-> "delete_event", ret |-> r.ret, why |-> r.why]
    /\ UNCHANGED <<members, attendance, now>>
    /\ UNCHANGED retryVars

\* EventsCRUD.initialize_sheet, every remote call succeeding.
initialize_events_sheet ==
    /\ LET r == InitializeSheet(events, EventHeaders) IN
        /\ events' = r.sheet
        /\ last' = [op |-> "initialize_sheet", ret |-> r.ret, why |-> r.why]
    /\ UNCHANGED <<members, attendance, now>>
    /\ UNCHANGED retryVars

\* The events a caller passes to update_event at tick t: an event read from
\* the tab with its location set by the caller, or an event made by the caller.
UpdateEventInputs(sheet, t) ==
    LET all == get_all_events(sheet, t) IN
    {[all[i] EXCEPT !.location = "Field B"] : i \in 1..Len(all)}
        \cup {NewEvent(id, "2024-03-20", <<"18:00", "20:00">>, "scheduled", t) :
                id \in EventIds}

update_event(e) ==
    LET r == UpdateEvent(events, e, now) IN
    /\ events' = r.sheet
    /\ last' = [op |-> "update_event", ret |-> r.ret, why |-> r.why]
    /\ UNCHANGED <<members, attendance, now>>
    /\ UNCHANGED retryVars

InitEvents == RetryIdle /\ StoreEmpty

NextEvents ==
    \/ \E id \in EventIds, x \in EventInputs :
            create_event(NewEvent(id, x[1], x[2], x[3], now)) /\ UNCHANGED calls
    \/ \E id \in EventIds : delete_event(id) /\ UNCHANGED calls
    \/ initialize_events_sheet /\ UNCHANGED calls

SpecEvents == InitEvents /\ [][NextEvents]_vars

\* Every operation of EventsCRUD that writes, by one sequential caller.
NextEventUpdates ==
    \/ \E id \in EventIds, x \in EventInputs :
            create_event(NewEvent(id, x[1], x[2], x[3], now))
    \/ \E e \in UpdateEventInputs(events, now) : update_event(e)
    \/ \E id \in EventIds : delete_event(id)
    \/ initialize_events_sheet

\* The rows of the Events tab that hold an event (not the header, not blank).
EventRows == {i \in 1..Len(events) : events[i] # BlankRow /\ events[i][1] # "Event ID"}

\* Minutes after midnight of the times the model's events use.
Minutes(s) ==
    CASE s = "18:00" -> 18 * 60 [] s = "19:00" -> 19 * 60
      [] s = "20:00" -> 20 * 60 [] s = "21:00" -> 21 * 60

\* Some stored event on the same event_date, not cancelled, has a window that
\* overlaps the window of e.
BlockedBy(e) ==
    \E i \in EventRows :
        /\ events[i][4] = e.event_date
        /\ events[i][12] # "cancelled"
        /\ Minutes(e.start_time) < Minutes(events[i][6])
        /\ Minutes(e.end_time) > Minutes(events[i][5])

C8_NoOverlapOnSameDate ==
    \A i, j \in EventRows :
        (i # j /\ events[i][12] # "cancelled" /\ events[j][12] # "cancelled"
            /\ ParseDate(events[i][4]) = ParseDate(events[j][4]))
        => ~(Minutes(events[i][5]) < Minutes(events[j][6])
                /\ Minutes(events[i][6]) > Minutes(events[j][5]))

(***************************************************************************)
(* Entity Models: AttendanceRecord                                         *)
(***************************************************************************)

AttendanceHeaders ==
    <<"Record ID", "Event ID", "Member ID", "Attendance Status",
      "Check In Time", "Check Out Time", "Notes", "Recorded By",
      "Created At", "Updated At">>

\* "if self.check_in_time and not self._is_valid_time(self.check_in_time)"
TimeOk(x) == x = None \/ x = "" \/ ParseHM(x) # -1

\* AttendanceRecord._validate
AttendanceValid(a) ==
    /\ a.record_id # "" /\ a.record_id # None
    /\ a.event_id # "" /\ a.event_id # None
    /\ a.member_id # "" /\ a.member_id # None
    /\ a.attendance_status \in {"present", "absent", "excused", "late"}
    /\ TimeOk(a.check_in_time)
    /\ TimeOk(a.check_out_time)

\* AttendanceRecord.__post_init__ at tick t, after _validate passed.
AttendancePostInit(a, t) ==
    [a EXCEPT !.created_at = Or(a.created_at, IsoFormat(t)),
              !.updated_at = IsoFormat(t)]

\* AttendanceRecord.to_sheet_row
AttendanceToRow(a) ==
    <<a.record_id, a.event_id, a.member_id, a.attendance_status,
      Or(a.check_in_time, ""), Or(a.check_out_time, ""), Or(a.notes, ""),
      a.recorded_by, Or(a.created_at, ""), Or(a.updated_at, "")>>

\* The arguments AttendanceRecord.from_sheet_row passes to the constructor.
AttendanceRowFields(row) ==
    LET r == Pad(row, 10) IN
    [record_id |-> r[1], event_id |-> r[2], member_id |-> r[3],
     attendance_status |-> r[4], check_in_time |-> OrNone(r[5]),
     check_out_time |-> OrNone(r[6]), notes |-> OrNone(r[7]),
     recorded_by |-> r[8], created_at |-> OrNone(r[9]),
     updated_at |-> OrNone(r[10])]

\* AttendanceRecord.from_sheet_row raises when the validation fails.
AttendanceRowParses(row) == AttendanceValid(AttendanceRowFields(row))

\* AttendanceRecord.from_sheet_row at tick t, for a row that parses.
AttendanceFromRow(row, t) == AttendancePostInit(AttendanceRowFields(row), t)

\* generate_record_id(event_id, member_id) at tick t
generate_record_id(e, m, t) == "ATT_" \o e \o "_" \o m \o "_" \o IdStamp(t)

\* AttendanceRecord(record_id=id, event_id=e, member_id=m, attendance_status=st,
\* check_in_time=cin, check_out_time=cout, notes=n, recorded_by=by) at tick t.
NewAttendance(id, e, m, st, cin, cout, n, by, t) ==
    AttendancePostInit(
        [record_id |-> id, event_id |-> e, member_id |-> m,
         attendance_status |-> st, check_in_time |-> cin,
         check_out_time |-> cout, notes |-> n, recorded_by |-> by,
         created_at |-> None, updated_at |-> None], t)

\* The event and the members whose attendance is recorded in the model.
AttEventIds == {"EVT_20240320170000"}
AttMemberIds == {"MBR_20240320170000", "MBR_20240320170001"}

(***************************************************************************)
(* Record Store: AttendanceCRUD                                            *)
(***************************************************************************)

RECURSIVE ParseAttendance(_, _)
ParseAttendance(rows, t) ==
    IF rows = <<>> THEN <<>>
    ELSE IF AttendanceRowParses(rows[1])
    THEN <<AttendanceFromRow(rows[1], t)>> \o ParseAttendance(Tail(rows), t)
    ELSE ParseAttendance(Tail(rows), t)

\* AttendanceCRUD.get_all_attendance at tick t, the read succeeding. A first
\* row without cells makes row[0] raise, and the outer except returns [].
get_all_attendance(sheet, t) ==
    IF sheet = <<>> THEN <<>>
    ELSE IF sheet[1] = BlankRow THEN <<>>
    ELSE IF sheet[1][1] = "Record ID" THEN ParseAttendance(Tail(sheet), t)
    ELSE ParseAttendance(sheet, t)

\* AttendanceCRUD.get_attendance_record: <<a>> for the first record of the
\* pair, <<>> for None.
get_attendance_record(sheet, e, m, t) ==
    LET all == get_all_attendance(sheet, t)
        hits == {i \in 1..Len(all) : all[i].event_id = e /\ all[i].member_id = m} IN
    IF hits = {} THEN <<>>
    ELSE <<all[CHOOSE i \in hits : \A j \in hits : i <= j]>>

\* AttendanceCRUD._find_attendance_row, 0 for None.
find_attendance_row(sheet, id) == FirstMatch(ColumnA(sheet), id)

\* AttendanceCRUD.update_attendance(a) on a tab at tick t, every remote call
\* succeeding: the row found by a.record_id is rewritten with a's row.
UpdateAttendance(sheet, a, t) ==
    LET n == find_attendance_row(sheet, a.record_id) IN
    IF n = 0
    THEN [ret |-> FALSE, why |-> "no row", sheet |-> sheet]
    ELSE [ret |-> TRUE, why |-> "updated",
          sheet |-> UpdateRow(sheet, n,
                        AttendanceToRow([a EXCEPT !.updated_at = IsoFormat(t)]))]

\* AttendanceCRUD.record_attendance(a) on a tab at tick t, every remote call
\* succeeding.
RecordAttendance(sheet, a, t) ==
    IF get_attendance_record(sheet, a.event_id, a.member_id, t) # <<>>
    THEN UpdateAttendance(sheet, a, t)
    ELSE [ret |-> TRUE, why |-> "appended",
          sheet |-> AppendRow(sheet, AttendanceToRow(a))]

\* AttendanceCRUD.delete_attendance_record(id), every remote call succeeding.
DeleteAttendanceRecord(sheet, id) ==
    LET n == find_attendance_row(sheet, id) IN
    IF n = 0
    THEN [ret |-> FALSE, why |-> "no row", sheet |-> sheet]
    ELSE [ret |-> TRUE, why |-> "cleared", sheet |-> ClearRow(sheet, n)]

\* AttendanceCRUD.check_in_member(e, m, by) at tick t.
CheckInMember(sheet, e, m, by, t) ==
    LET found == get_attendance_record(sheet, e, m, t) IN
    IF found # <<>>
    THEN UpdateAttendance(sheet,
            [found[1] EXCEPT !.attendance_status = "present",
                             !.check_in_time = ClockHM(t),
                             !.recorded_by = by], t)
    ELSE RecordAttendance(sheet,
            NewAttendance(generate_record_id(e, m, t), e, m, "present",
                          ClockHM(t), None, None, by, t), t)

\* AttendanceCRUD.check_out_member(e, m) at tick t.
CheckOutMember(sheet, e, m, t) ==
    LET found == get_attendance_record(sheet, e, m, t) IN
    IF found = <<>>
    THEN [ret |-> FALSE, why |-> "no record", sheet |-> sheet]
    ELSE UpdateAttendance(sheet,
            [found[1] EXCEPT !.check_out_time = ClockHM(t)], t)

\* AttendanceCRUD.mark_absent(e, m, is_excused, by) at tick t.
MarkAbsent(sheet, e, m, is_excused, by, t) ==
    LET status == IF is_excused THEN "excused" ELSE "absent"
        found == get_attendance_record(sheet, e, m, t) IN
    IF found # <<>>
    THEN UpdateAttendance(sheet,
            [found[1] EXCEPT !.attendance_status = status,
                             !.recorded_by = by], t)
    ELSE RecordAttendance(sheet,
            NewAttendance(generate_record_id(e, m, t), e, m, status, None, None,
                          IF is_excused THEN "Marked absent (excused)"
                          ELSE "Marked absent", by, t), t)

RECURSIVE BulkRecordAttendance_mut(_, _, _, _)
BulkRecordAttendance_mut(sheet, e, data, t) ==
    IF data = <<>>
    THEN [successful |-> 0, total |-> 0, sheet |-> sheet]
    ELSE LET d == data[1]
             a == [record_id |-> generate_record_id(e, d.member_id, t),
                   event_id |-> e, member_id |-> d.member_id,
                   attendance_status |-> d.status,
                   check_in_time |-> d.check_in_time,
                   check_out_time |-> None, notes |-> None,
                   recorded_by |-> "system",
                   created_at |-> None, updated_at |-> None] IN
         IF ~AttendanceValid(a)
         THEN [successful |-> 0, total |-> Len(data), sheet |-> sheet]
         ELSE LET one == RecordAttendance(sheet, AttendancePostInit(a, t), t)
                  rest == BulkRecordAttendance_mut(one.sheet, e, Tail(data), t) IN
              [successful |-> rest.successful + (IF one.ret THEN 1 ELSE 0),
               total |-> rest.total + 1,
               sheet |-> rest.sheet]

\* AttendanceCRUD.bulk_record_attendance(e, data) at tick t: the items in
\* order; an item whose record cannot be constructed is skipped.
RECURSIVE BulkRecordAttendance(_, _, _, _)
BulkRecordAttendance(sheet, e, data, t) ==
    IF data = <<>>
    THEN [successful |-> 0, total |-> 0, sheet |-> sheet]
    ELSE LET d == data[1]
             a == [record_id |-> generate_record_id(e, d.member_id, t),
                   event_id |-> e, member_id |-> d.member_id,
                   attendance_status |-> d.status,
                   check_in_time |-> d.check_in_time,
                   check_out_time |-> None, notes |-> None,
                   recorded_by |-> "system",
                   created_at |-> None, updated_at |-> None]
             one == IF AttendanceValid(a)
                    THEN RecordAttendance(sheet, AttendancePostInit(a, t), t)
                    ELSE [ret |-> FALSE, why |-> "invalid", sheet |-> sheet]
             rest == BulkRecordAttendance(one.sheet, e, Tail(data), t) IN
         [successful |-> rest.successful + (IF one.ret THEN 1 ELSE 0),
          total |-> rest.total + 1,
          sheet |-> rest.sheet]

\* Longest list bulk_record_attendance is given in the model.
MaxBulk == 2

\* The dicts of a bulk list: member_id, status and check_in_time.
BulkItems ==
    {[member_id |-> m, status |-> st, check_in_time |-> None] :
        m \in AttMemberIds, st \in {"present"}}

BulkLists == UNION {[1..n -> BulkItems] : n \in 0..MaxBulk}

\* The records a caller passes to record_attendance at tick t: made with a
\* record_id from generate_record_id at that tick.
AttendanceInputs(t) ==
    {NewAttendance(generate_record_id(e, m, t), e, m, tr[1], tr[2], tr[3],
                   None, "admin", t) :
        e \in AttEventIds, m \in AttMemberIds,
        tr \in {<<"late", "18:00", "20:00">>, <<"absent", None, None>>}}

\* The records a caller passes to update_attendance at tick t: a record read
\* from the tab with its status and its member_id set by the caller.
UpdateInputs(sheet, t) ==
    LET all == get_all_attendance(sheet, t) IN
    {[all[i] EXCEPT !.attendance_status = st, !.member_id = m] :
        i \in 1..Len(all), st \in {"excused"}, m \in AttMemberIds}

\* The record ids delete_attendance_record is called with: those of the
\* records in the tab and one that is in no row.
DeleteInputs(sheet) ==
    {sheet[i][1] : i \in {j \in 1..Len(sheet) :
                            sheet[j] # BlankRow /\ sheet[j][1] # "Record ID"}}
        \cup {"ATT_unknown"}

AttendanceStep(op, r) ==
    /\ calls < MaxCalls
    /\ Len(r.sheet) <= MaxAttendanceRows
    /\ attendance' = r.sheet
    /\ calls' = calls + 1
    /\ last' = [op |-> op, ret |-> r.ret, why |-> r.why]
    /\ UNCHANGED <<members, events, now>>
    /\ UNCHANGED retryVars

record_attendance(a) ==
    AttendanceStep("record_attendance", RecordAttendance(attendance, a, now))

update_attendance(a) ==
    AttendanceStep("update_attendance", UpdateAttendance(attendance, a, now))

delete_attendance_record(id) ==
    AttendanceStep("delete_attendance_record", DeleteAttendanceRecord(attendance, id))

check_in_member(e, m) ==
    AttendanceStep("check_in_member", CheckInMember(attendance, e, m, "system", now))

check_out_member(e, m) ==
    AttendanceStep("check_out_member", CheckOutMember(attendance, e, m, now))

mark_absent(e, m, is_excused) ==
    AttendanceStep("mark_absent", MarkAbsent(attendance, e, m, is_excused, "system", now))

bulk_record_attendance(e, data) ==
    LET r == BulkRecordAttendance(attendance, e, data, now) IN
    AttendanceStep("bulk_record_attendance",
        [ret |-> r.successful = r.total,
         why |-> ToString(r.successful) \o "/" \o ToString(r.total),
         sheet |-> r.sheet])

\* AttendanceCRUD.initialize_sheet, every remote call succeeding.
initialize_attendance_sheet ==
    /\ calls < MaxCalls
    /\ calls' = calls + 1
    /\ LET r == InitializeSheet(attendance, AttendanceHeaders) IN
        /\ attendance' = r.sheet
        /\ last' = [op |-> "initialize_sheet", ret |-> r.ret, why |-> r.why]
    /\ UNCHANGED <<members, events, now>>
    /\ UNCHANGED retryVars

InitAttendance == RetryIdle /\ StoreEmpty

NextAttendance ==
    \/ Tick
    \/ \E a \in AttendanceInputs(now) : record_attendance(a)
    \/ \E a \in UpdateInputs(attendance, now) : update_attendance(a)
    \/ \E id \in DeleteInputs(attendance) : delete_attendance_record(id)
    \/ \E e \in AttEventIds, m \in AttMemberIds : check_in_member(e, m)
    \/ \E e \in AttEventIds, m \in AttMemberIds : check_out_member(e, m)
    \/ \E e \in AttEventIds, m \in AttMemberIds, x \in BOOLEAN : mark_absent(e, m, x)
    \/ \E e \in AttEventIds, data \in BulkLists : bulk_record_attendance(e, data)
    \/ initialize_attendance_sheet

SpecAttendance == InitAttendance /\ [][NextAttendance]_vars

(***************************************************************************)
(* The three record stores                                                 *)
(***************************************************************************)

\* MembersCRUD, EventsCRUD and AttendanceCRUD each read and write their own
\* tab only, so a behaviour works on one tab and leaves the other two empty.
\* A behaviour makes at most MaxCalls calls; the clock moves between them.
InitStore == RetryIdle /\ StoreEmpty

CountCall == calls < MaxCalls /\ calls' = calls + 1

NextStore ==
    \/ Tick
    \/ events = <<>> /\ attendance = <<>> /\ CountCall /\ NextMemberUpdates
    \/ members = <<>> /\ attendance = <<>> /\ CountCall /\ NextEventUpdates
    \/ members = <<>> /\ events = <<>> /\ NextAttendance

SpecStore == InitStore /\ [][NextStore]_vars

\* The rows of the Attendance tab that hold a record of the pair (not the
\* header, not cleared).
PairRows(sheet, e, m) ==
    {i \in 1..Len(sheet) :
        /\ sheet[i] # BlankRow
        /\ sheet[i][1] # "Record ID"
        /\ sheet[i][2] = e /\ sheet[i][3] = m}

\* C9: each (event_id, member_id) pair has at most one row that is not
\* cleared in the Attendance tab.
C9_OneRowPerPair ==
    \A e \in AttEventIds, m \in AttMemberIds :
        Cardinality(PairRows(attendance, e, m)) <= 1

\* C10: when the pair of a has a row, record_attendance(a) returns True and
\* afterwards the pair has one row, which carries a's attendance_status,
\* check-in and check-out times, notes and recorded_by.
C10_ExistingRecordUpdated ==
    \A a \in AttendanceInputs(now) :
        LET res == RecordAttendance(attendance, a, now)
            rows == PairRows(res.sheet, a.event_id, a.member_id) IN
        PairRows(attendance, a.event_id, a.member_id) # {} =>
            /\ res.ret = TRUE
            /\ Cardinality(rows) = 1
            /\ \A i \in rows :
                SubSeq(res.sheet[i], 4, 8) = SubSeq(AttendanceToRow(a), 4, 8)

DurationMinutes_mut(a) ==
    IF a.check_in_time \in {None, ""} \/ a.check_out_time \in {None, ""}
    THEN NoneInt
    ELSE ParseHM(a.check_out_time) - ParseHM(a.check_in_time)
\* AttendanceRecord.duration_minutes; NoneInt for None.
DurationMinutes(a) ==
    IF a.check_in_time \in {None, ""} \/ a.check_out_time \in {None, ""}
    THEN NoneInt
    ELSE LET ci == ParseHM(a.check_in_time)
             co == ParseHM(a.check_out_time) IN
         IF co < ci THEN (co + 24 * 60) - ci ELSE co - ci

\* The records get_all_attendance returns for the pair.
PairRecords(sheet, e, m, t) ==
    LET all == get_all_attendance(sheet, t) IN
    {all[i] : i \in {j \in 1..Len(all) :
                        all[j].event_id = e /\ all[j].member_id = m}}

\* C11: from a state with no record for the pair (e, m), check_in_member(e, m)
\* and a later check_out_member(e, m) both return True and leave exactly one
\* record for the pair, with status present, check_in_time the clock at
\* check-in, check_out_time the clock at check-out and duration_minutes the
\* clock difference in minutes.
C11_CheckInThenCheckOut ==
    \A e \in AttEventIds, m \in AttMemberIds, t2 \in now..MaxClock :
        LET r1 == CheckInMember(attendance, e, m, "system", now)
            r2 == CheckOutMember(r1.sheet, e, m, t2)
            recs == PairRecords(r2.sheet, e, m, t2) IN
        PairRows(attendance, e, m) = {} =>
            /\ r1.ret = TRUE
            /\ r2.ret = TRUE
            /\ Cardinality(PairRows(r2.sheet, e, m)) = 1
            /\ Cardinality(recs) = 1
            /\ \A a \in recs :
                /\ a.attendance_status = "present"
                /\ a.check_in_time = ClockHM(now)
                /\ a.check_out_time = ClockHM(t2)
                /\ DurationMinutes(a) = t2 - now

\* C12: after a mark_absent(e, m, is_excused) that returns True, the record of
\* the pair has status excused when is_excused and absent otherwise, and has
\* neither a check-in nor a check-out time, whatever the pair had before.
C12_MarkAbsentClearsTimes ==
    \A e \in AttEventIds, m \in AttMemberIds, is_excused \in BOOLEAN :
        LET r == MarkAbsent(attendance, e, m, is_excused, "system", now)
            recs == PairRecords(r.sheet, e, m, now) IN
        r.ret = TRUE =>
            /\ recs # {}
            /\ \A a \in recs :
                /\ a.attendance_status = (IF is_excused THEN "excused" ELSE "absent")
                /\ a.check_in_time = None
                /\ a.check_out_time = None

\* The sheet with cell c of row n set to v.
WithCell(sheet, n, c, v) == [sheet EXCEPT ![n] = [@ EXCEPT ![c] = v]]

\* C13: a delete_member(id) (delete_event(id)) that returns True keeps the row:
\* the entity is still returned by get_member_by_id (get_event_by_id) and is in
\* the same row, its membership_status is inactive (its status cancelled),
\* every other cell but updated_at and every other row is as before, and a
\* second delete returns True and leaves the row in that state.
C13_SoftDeleteKeepsRow ==
    /\ \A id \in MemberIdsUpTo(MaxClock), t2 \in now..MaxClock :
        LET r == DeleteMember(members, id, now)
            n == find_member_row(members, id)
            after == get_member_by_id(r.sheet, id, now)
            r2 == DeleteMember(r.sheet, id, t2) IN
        r.ret = TRUE =>
            /\ n > 0 /\ find_member_row(r.sheet, id) = n
            /\ after # <<>> /\ after[1].membership_status = "inactive"
            /\ r.sheet = WithCell(WithCell(members, n, 8, "inactive"),
                                  n, 17, IsoFormat(now))
            /\ r2.ret = TRUE
            /\ r2.sheet = WithCell(r.sheet, n, 17, IsoFormat(t2))
    /\ \A id \in EventIds, t2 \in now..MaxClock :
        LET r == DeleteEvent(events, id, now)
            n == find_event_row(events, id)
            after == get_event_by_id(r.sheet, id, now)
            r2 == DeleteEvent(r.sheet, id, t2) IN
        r.ret = TRUE =>
            /\ n > 0 /\ find_event_row(r.sheet, id) = n
            /\ after # <<>> /\ after[1].status = "cancelled"
            /\ r.sheet = WithCell(WithCell(events, n, 12, "cancelled"),
                                  n, 14, IsoFormat(now))
            /\ r2.ret = TRUE
            /\ r2.sheet = WithCell(r.sheet, n, 14, IsoFormat(t2))

\* C13 witness: delete_member returned True at a later tick than the member
\* was created, and the member's row is there, marked inactive.
C13_Witness ==
    /\ last.op = "delete_member" /\ last.ret = TRUE
    /\ \E i \in 1..Len(members) :
        /\ members[i] # BlankRow
        /\ members[i][8] = "inactive"
        /\ members[i][16] # members[i][17]

\* C14: a delete_attendance_record(id) that returns True clears the row in
\* place: afterwards no record with the id is returned by get_all_attendance
\* or found by _find_attendance_row, get_all_attendance returns exactly one
\* record less, and every other row is as before, at the same row number.
C14_HardDeleteClearsInPlace ==
    \A id \in DeleteInputs(attendance) :
        LET r == DeleteAttendanceRecord(attendance, id)
            n == find_attendance_row(attendance, id)
            before == get_all_attendance(attendance, now)
            after == get_all_attendance(r.sheet, now) IN
        r.ret = TRUE =>
            /\ find_attendance_row(r.sheet, id) = 0
            /\ \A i \in 1..Len(after) : after[i].record_id # id
            /\ Len(after) = Len(before) - 1
            /\ \A i \in 1..Len(r.sheet) :
                IF i = n THEN r.sheet[i] = BlankRow ELSE r.sheet[i] = attendance[i]
            /\ \A i \in 1..Len(attendance) : i > Len(r.sheet) => i = n

(***************************************************************************)
(* Entity Models: to_sheet_row and from_sheet_row                          *)
(***************************************************************************)

\* Values of an optional string field: None, the empty string, a text.
OptionalStrings == {None, "", "text"}

\* Validly constructed entities: the optional fields over OptionalStrings,
\* Event.max_attendees over None, 0 and a positive count.
MemberSamples ==
    {[NewMember(generate_member_id(0), "Ann", r, 0)
        EXCEPT !.wix_user_id = w, !.notes = n] :
        r \in Roles, w \in OptionalStrings, n \in OptionalStrings}

EventSamples ==
    {[NewEvent(generate_event_id(0), "2024-03-20", <<"18:00", "20:00">>,
               "scheduled", 0)
        EXCEPT !.description = d, !.max_attendees = k, !.is_mandatory = b] :
        d \in OptionalStrings, k \in AttendeeCounts \cup {NoneInt}, b \in BOOLEAN}

AttendanceSamples ==
    {NewAttendance(generate_record_id(e, m, 0), e, m, st, cin, None, n, "admin", 0) :
        e \in AttEventIds, m \in AttMemberIds, st \in {"present", "late"},
        cin \in {None, "", "18:00"}, n \in OptionalStrings}

Constructed ==
    {[op |-> "construct", kind |-> "Member", entity |-> e] : e \in MemberSamples}
    \cup {[op |-> "construct", kind |-> "Event", entity |-> e] : e \in EventSamples}
    \cup {[op |-> "construct", kind |-> "AttendanceRecord", entity |-> e] :
            e \in AttendanceSamples}

\* e.to_sheet_row() of the entity's class.
ToSheetRow(kind, e) ==
    CASE kind = "Member" -> MemberToRow(e)
      [] kind = "Event" -> EventToRow(e)
      [] kind = "AttendanceRecord" -> AttendanceToRow(e)

\* cls.from_sheet_row(row) at tick t: <<entity>>, or <<>> when it raises.
FromSheetRow(kind, row, t) ==
    CASE kind = "Member" ->
            IF MemberRowParses(row) THEN <<MemberFromRow(row, t)>> ELSE <<>>
      [] kind = "Event" ->
            IF EventRowParses(row) THEN <<EventFromRow(row, t)>> ELSE <<>>
      [] kind = "AttendanceRecord" ->
            IF AttendanceRowParses(row) THEN <<AttendanceFromRow(row, t)>> ELSE <<>>

to_sheet_row ==
    /\ last.op = "construct"
    /\ last' = [op |-> "to_sheet_row", kind |-> last.kind, entity |-> last.entity,
                row |-> ToSheetRow(last.kind, last.entity)]
    /\ UNCHANGED <<members, events, attendance, now, calls>>
    /\ UNCHANGED retryVars

from_sheet_row ==
    /\ last.op = "to_sheet_row"
    /\ last' = [op |-> "from_sheet_row", kind |-> last.kind,
                entity |-> last.entity, row |-> last.row,
                back |-> FromSheetRow(last.kind, last.row, now)]
    /\ UNCHANGED <<members, events, attendance, now, calls>>
    /\ UNCHANGED retryVars

InitRoundTrip ==
    /\ RetryIdle
    /\ members = <<>> /\ events = <<>> /\ attendance = <<>>
    /\ now = 0 /\ calls = 0
    /\ last \in Constructed

NextRoundTrip == Tick \/ to_sheet_row \/ from_sheet_row

SpecRoundTrip == InitRoundTrip /\ [][NextRoundTrip]_vars

\* The entity without its two timestamps.
NoTimestamps(e) == [e EXCEPT !.created_at = None, !.updated_at = None]

\* C15: for every validly constructed Member, Event and AttendanceRecord e,
\* from_sheet_row(to_sheet_row(e)) succeeds and equals e on every field other
\* than created_at and updated_at.
C15_RoundTrip ==
    last.op = "from_sheet_row" =>
        /\ last.back # <<>>
        /\ NoTimestamps(last.back[1]) = NoTimestamps(last.entity)

(***************************************************************************)
(* Setter-then-save: a caller assigns a field of an entity and saves it     *)
(***************************************************************************)

\* The entities are dataclasses: an assignment to a field runs no validation.
\* A member, event or record read from the tab with one enumerated field
\* assigned by the caller, to a value of the enumeration or to another string.
SetterMembers(sheet, t) ==
    LET all == get_all_members(sheet, t) IN
    {[all[i] EXCEPT !.role = v] : i \in 1..Len(all), v \in {"exec", "captain"}}

SetterEvents(sheet, t) ==
    LET all == get_all_events(sheet, t) IN
    {[all[i] EXCEPT !.status = v] : i \in 1..Len(all), v \in {"completed", "postponed"}}

SetterRecords(sheet, t) ==
    LET all == get_all_attendance(sheet, t) IN
    {[all[i] EXCEPT !.attendance_status = v] :
        i \in 1..Len(all), v \in {"late", "left early"}}

InitSetterSave == RetryIdle /\ StoreEmpty

NextSetterSave ==
    \/ Tick
    \/ /\ events = <<>> /\ attendance = <<>> /\ CountCall
       /\ \/ \E id \in MemberIdsUpTo(now), fn \in FirstNames, r \in Roles :
                create_member(NewMember(id, fn, r, now))
          \/ \E m \in SetterMembers(members, now) : update_member(m)
    \/ /\ members = <<>> /\ attendance = <<>> /\ CountCall
       /\ \/ \E id \in EventIds, x \in EventInputs :
                create_event(NewEvent(id, x[1], x[2], x[3], now))
          \/ \E e \in SetterEvents(events, now) : update_event(e)
    \/ /\ members = <<>> /\ events = <<>>
       /\ \/ \E a \in AttendanceInputs(now) : record_attendance(a)
          \/ \E a \in SetterRecords(attendance, now) : update_attendance(a)

SpecSetterSave == InitSetterSave /\ [][NextSetterSave]_vars

\* The rows of a tab below its header that are not cleared.
DataRows(sheet, header) ==
    {i \in 1..Len(sheet) : sheet[i] # BlankRow /\ sheet[i] # header}

\* C16: every row that create and update write to the Members, Events and
\* Attendance tabs satisfies the validation rules of its entity: the required
\* cells are not empty and role, membership_status, payment_status,
\* event_type, status and attendance_status are in their enumerated sets.
C16_StoredRowsAreValid ==
    /\ \A i \in DataRows(members, MemberHeaders) :
        /\ members[i][1] # "" /\ members[i][2] # "" /\ members[i][3] # ""
        /\ is_valid_email(members[i][4]) /\ is_valid_phone(members[i][5])
        /\ members[i][7] \in {"member", "exec"}
        /\ members[i][8] \in {"active", "inactive", "suspended"}
        /\ members[i][9] \in {"paid", "pending", "overdue"}
    /\ \A i \in DataRows(events, EventHeaders) :
        /\ events[i][1] # "" /\ events[i][2] # ""
        /\ events[i][3] \in {"practice", "game", "meeting", "social"}
        /\ events[i][12] \in {"scheduled", "cancelled", "completed"}
    /\ \A i \in DataRows(attendance, AttendanceHeaders) :
        /\ attendance[i][1] # "" /\ attendance[i][2] # "" /\ attendance[i][3] # ""
        /\ attendance[i][4] \in {"present", "absent", "excused", "late"}

\* The identifiers that are in column A of no row of the sheet.
NotInColumnA(sheet, ids) ==
    {id \in ids : \A i \in 1..Len(sheet) : sheet[i] = BlankRow \/ sheet[i][1] # id}

\* C17: update_member, update_event, update_attendance, delete_member,
\* delete_event and delete_attendance_record with an identifier that is in no
\* row of the tab return False and leave the tab unchanged.
C17_UnknownIdReturnsFalse ==
    /\ \A id \in NotInColumnA(members, MemberIdsUpTo(MaxClock) \cup {"MBR_unknown"}) :
        LET u == UpdateMember(members, NewMember(id, "Bob", "exec", now), now)
            d == DeleteMember(members, id, now) IN
        /\ u.ret = FALSE /\ u.sheet = members
        /\ d.ret = FALSE /\ d.sheet = members
    /\ \A id \in NotInColumnA(events, EventIds \cup {"EVT_unknown"}) :
        LET u == UpdateEvent(events,
                    NewEvent(id, "2024-03-20", <<"18:00", "20:00">>, "scheduled", now),
                    now)
            d == DeleteEvent(events, id, now) IN
        /\ u.ret = FALSE /\ u.sheet = events
        /\ d.ret = FALSE /\ d.sheet = events
    /\ \A a \in AttendanceInputs(now) \cup AttendanceInputs(MaxClock) :
        a.record_id \in NotInColumnA(attendance, {a.record_id}) =>
            LET u == UpdateAttendance(attendance, a, now)
                d == DeleteAttendanceRecord(attendance, a.record_id) IN
            /\ u.ret = FALSE /\ u.sheet = attendance
            /\ d.ret = FALSE /\ d.sheet = attendance

\* C17 witness: update_member was called for a member_id that is in no row of
\* a tab that holds a member, and returned False.
C17_Witness ==
    /\ last.op = "update_member" /\ last.ret = FALSE /\ last.why = "no row"
    /\ \E i \in 1..Len(members) :
        members[i] # BlankRow /\ members[i][1] \in MemberIdsUpTo(MaxClock)

\* The sheet differs from the sheet before in row n at most, and row n is row.
OnlyRowRewritten(before, after, n, row) ==
    /\ Len(after) = Len(before)
    /\ n \in 1..Len(after)
    /\ after[n] = row
    /\ \A i \in 1..Len(before) : i # n => after[i] = before[i]

\* The events a caller passes to update_event after reading them from the tab
\* and changing one field: the location, or the attendee limit.
C18_EventInputs(sheet, t) ==
    LET all == get_all_events(sheet, t) IN
    UpdateEventInputs(sheet, t)
        \cup {[all[i] EXCEPT !.max_attendees = k] :
                i \in 1..Len(all), k \in AttendeeCounts}

\* C18 (members): an update_member that returns True rewrites only the first
\* row whose column A holds the member_id, with to_sheet_row of the member and
\* a fresh updated_at, and a following get_member_by_id returns the member
\* with the values it was saved with.
C18_MemberUpdateReadBack ==
    \A m \in UpdateMemberInputs(members, now) :
        LET r == UpdateMember(members, m, now)
            saved == [m EXCEPT !.updated_at = IsoFormat(now)] IN
        r.ret =>
            /\ OnlyRowRewritten(members, r.sheet,
                                find_member_row(members, m.member_id),
                                MemberToRow(saved))
            /\ get_member_by_id(r.sheet, m.member_id, now) = <<saved>>

\* C18: an update that returns True rewrites only the first row whose column
\* A holds the entity's identifier, with to_sheet_row of the entity and a
\* fresh updated_at, every other row is unchanged, and a following read by id
\* returns the entity with the values it was saved with.
C18_UpdateRewritesOneRow ==
    /\ C18_MemberUpdateReadBack
    /\ \A e \in C18_EventInputs(events, now) :
        LET r == UpdateEvent(events, e, now)
            saved == [e EXCEPT !.updated_at = IsoFormat(now)] IN
        r.ret =>
            /\ OnlyRowRewritten(events, r.sheet,
                                find_event_row(events, e.event_id),
                                EventToRow(saved))
            /\ get_event_by_id(r.sheet, e.event_id, now) = <<saved>>

(***************************************************************************)
(* Two callers updating one member concurrently                            *)
(***************************************************************************)

Callers == {"A", "B"}

\* The member both callers work on, and the tabs it is stored in when they
\* start: alone on a tab without headers, under the headers, or under the
\* headers and another member.
SharedMemberId == generate_member_id(0)
SharedMember == NewMember(SharedMemberId, "Ann", "member", 0)
OtherMember == NewMember("MBR_20240319180000", "Bob", "member", 0)
SharedTabs ==
    {<<MemberToRow(SharedMember)>>,
     <<MemberHeaders, MemberToRow(SharedMember)>>,
     <<MemberHeaders, MemberToRow(OtherMember), MemberToRow(SharedMember)>>}

\* The field each caller assigns on the member it has read.
CallerChange(c, m) ==
    IF c = "A" THEN [m EXCEPT !.payment_status = "paid"]
    ELSE [m EXCEPT !.role = "exec"]

\* values().update of row n with member.to_sheet_row(): the whole row A..Q is
\* replaced.
UpdateRequest_mut(sheet, n, m) == sheet
UpdateRequest(sheet, n, m) == UpdateRow(sheet, n, MemberToRow(m))

CallerStart == [pc |-> "start", entity |-> SharedMember, row |-> 0,
                fresh |-> FALSE, ret |-> FALSE]

SetCaller(c, st, op) ==
    last' = [last EXCEPT !.op = op, !.callers[c] = st]

\* m = get_member_by_id(id): the caller reads the member. fresh records that
\* neither caller's write had reached the store at the time of the read.
caller_read(c) ==
    LET st == last.callers[c]
        found == get_member_by_id(members, SharedMemberId, now) IN
    /\ st.pc = "start"
    /\ found # <<>>
    /\ SetCaller(c, [st EXCEPT !.pc = "read", !.entity = found[1],
                               !.fresh = (last.order = <<>>)], "read")
    /\ UNCHANGED <<members, events, attendance, now, calls>>
    /\ UNCHANGED retryVars

\* The caller assigns its field on the member it holds.
caller_change(c) ==
    LET st == last.callers[c] IN
    /\ st.pc = "read"
    /\ SetCaller(c, [st EXCEPT !.pc = "changed",
                               !.entity = CallerChange(c, st.entity)], "change")
    /\ UNCHANGED <<members, events, attendance, now, calls>>
    /\ UNCHANGED retryVars

\* update_member, first remote call: _find_member_row; None returns False.
caller_locate(c) ==
    LET st == last.callers[c]
        n == find_member_row(members, st.entity.member_id) IN
    /\ st.pc = "changed"
    /\ SetCaller(c, IF n = 0 THEN [st EXCEPT !.pc = "done", !.ret = FALSE]
                    ELSE [st EXCEPT !.pc = "located", !.row = n], "locate")
    /\ UNCHANGED <<members, events, attendance, now, calls>>
    /\ UNCHANGED retryVars

\* update_member: member.updated_at = pd.Timestamp.now().isoformat().
caller_stamp(c) ==
    LET st == last.callers[c] IN
    /\ st.pc = "located"
    /\ SetCaller(c, [st EXCEPT !.pc = "stamped",
                               !.entity.updated_at = IsoFormat(now)], "stamp")
    /\ UNCHANGED <<members, events, attendance, now, calls>>
    /\ UNCHANGED retryVars

\* update_member, second remote call: the update request reaches the store,
\* reports updatedRows = 1, and the call returns True.
caller_write(c) ==
    LET st == last.callers[c] IN
    /\ st.pc = "stamped"
    /\ members' = UpdateRequest(members, st.row, st.entity)
    /\ last' = [last EXCEPT !.op = "write",
                            !.callers[c] = [st EXCEPT !.pc = "done", !.ret = TRUE],
                            !.order = Append(@, c)]
    /\ UNCHANGED <<events, attendance, now, calls>>
    /\ UNCHANGED retryVars

InitLostUpdate ==
    /\ RetryIdle
    /\ members \in SharedTabs
    /\ events = <<>> /\ attendance = <<>>
    /\ now = 0 /\ calls = 0
    /\ last = [op |-> "none", ret |-> FALSE, why |-> "none",
               callers |-> [c \in Callers |-> CallerStart], order |-> <<>>]

NextLostUpdate ==
    \/ Tick
    \/ \E c \in Callers :
        \/ caller_read(c)
        \/ caller_change(c)
        \/ caller_locate(c)
        \/ caller_stamp(c)
        \/ caller_write(c)

SpecLostUpdate == InitLostUpdate /\ [][NextLostUpdate]_vars

\* Both callers read the member before either write reached the store, and
\* both update calls have returned.
BothDoneAfterFreshReads ==
    \A c \in Callers : last.callers[c].pc = "done" /\ last.callers[c].fresh

\* C19: when two callers read the same member, assign different fields and
\* update concurrently, both calls return True, the stored row is the whole
\* row of the caller whose write reached the store last, and the field the
\* other caller assigned has the value it had before both updates.
C19_LostUpdate ==
    BothDoneAfterFreshReads =>
        LET winner == last.order[2]
            loser == last.order[1]
            n == find_member_row(members, SharedMemberId)
            before == MemberToRow(SharedMember)
            lostCell == IF loser = "A" THEN 9 ELSE 7 IN
        /\ Len(last.order) = 2
        /\ \A c \in Callers : last.callers[c].ret = TRUE
        /\ n # 0
        /\ members[n] = MemberToRow(last.callers[winner].entity)
        /\ members[n][lostCell] = before[lostCell]
        /\ MemberToRow(last.callers[loser].entity)[lostCell] # before[lostCell]

\* C19 witness: A's write reached the store first and B's last, at a later
\* tick, after both had read the member before either write.
C19_Witness ==
    /\ BothDoneAfterFreshReads
    /\ last.order = <<"A", "B">>
    /\ last.callers["A"].entity.updated_at # last.callers["B"].entity.updated_at
    /\ Len(members) = 3

(***************************************************************************)
(* Create under every append response                                      *)
(***************************************************************************)

\* The bodies an append request can return without raising: no 'updates'
\* key, 'updates' without 'updatedRows', or 'updates' with a count.
AppendResponses ==
    {[has_updates |-> FALSE, updatedRows |-> NoneInt],
     [has_updates |-> TRUE, updatedRows |-> NoneInt],
     [has_updates |-> TRUE, updatedRows |-> 0],
     [has_updates |-> TRUE, updatedRows |-> 1]}

\* result.get('updates', {}).get('updatedRows', 0)
UpdatedRowsOf_mut(resp) ==
    IF ~resp.has_updates \/ resp.updatedRows = NoneInt THEN 1 ELSE resp.updatedRows
UpdatedRowsOf(resp) ==
    IF ~resp.has_updates \/ resp.updatedRows = NoneInt THEN 0 ELSE resp.updatedRows

LacksCount(resp) == ~resp.has_updates \/ resp.updatedRows = NoneInt

\* Whether the store holds the appended row after the response: it does when
\* the response counts a row, it does not when it counts none, and a response
\* without a count leaves both open.
StoredChoices(resp) ==
    IF LacksCount(resp) THEN BOOLEAN ELSE {resp.updatedRows > 0}

\* The outcome of a create whose result with every remote call succeeding is
\* r, when the append request, if one is sent, is answered by resp: True if
\* and only if the response counts an updated row.
AfterAppend(r, before, resp, stored) ==
    IF r.why = "appended"
    THEN [ret |-> UpdatedRowsOf(resp) > 0, why |-> "appended",
          sheet |-> IF stored THEN r.sheet ELSE before,
          append_sent |-> TRUE, lacks_count |-> LacksCount(resp)]
    ELSE [ret |-> r.ret, why |-> r.why, sheet |-> r.sheet,
          append_sent |-> FALSE, lacks_count |-> FALSE]

CreateMemberResponse(sheet, m, t, resp, stored) ==
    AfterAppend(CreateMember(sheet, m, t), sheet, resp, stored)

CreateEventResponse(sheet, e, t, resp, stored) ==
    AfterAppend(CreateEvent(sheet, e, t), sheet, resp, stored)

RecordAttendanceResponse(sheet, a, t, resp, stored) ==
    AfterAppend(RecordAttendance(sheet, a, t), sheet, resp, stored)

ResponseLast(op, r) ==
    last' = [op |-> op, ret |-> r.ret, why |-> r.why,
             append_sent |-> r.append_sent, lacks_count |-> r.lacks_count]

create_member_response(m, resp, stored) ==
    LET r == CreateMemberResponse(members, m, now, resp, stored) IN
    /\ Len(r.sheet) <= MaxMemberRows
    /\ members' = r.sheet
    /\ ResponseLast("create_member", r)
    /\ UNCHANGED <<events, attendance, now>>
    /\ UNCHANGED retryVars

create_event_response(e, resp, stored) ==
    LET r == CreateEventResponse(events, e, now, resp, stored) IN
    /\ Len(r.sheet) <= MaxEventRows
    /\ events' = r.sheet
    /\ ResponseLast("create_event", r)
    /\ UNCHANGED <<members, attendance, now>>
    /\ UNCHANGED retryVars

record_attendance_response(a, resp, stored) ==
    LET r == RecordAttendanceResponse(attendance, a, now, resp, stored) IN
    /\ Len(r.sheet) <= MaxAttendanceRows
    /\ attendance' = r.sheet
    /\ ResponseLast("record_attendance", r)
    /\ UNCHANGED <<members, events, now>>
    /\ UNCHANGED retryVars

InitAppendResponse ==
    /\ RetryIdle
    /\ members = <<>> /\ events = <<>> /\ attendance = <<>>
    /\ now = 0 /\ calls = 0
    /\ last = [op |-> "none", ret |-> FALSE, why |-> "none",
               append_sent |-> FALSE, lacks_count |-> FALSE]

NextAppendResponse ==
    \/ Tick
    \/ /\ events = <<>> /\ attendance = <<>> /\ CountCall
       /\ \E id \in MemberIdsUpTo(now), fn \in FirstNames, r \in Roles,
             resp \in AppendResponses :
            \E stored \in StoredChoices(resp) :
                create_member_response(NewMember(id, fn, r, now), resp, stored)
    \/ /\ members = <<>> /\ attendance = <<>> /\ CountCall
       /\ \E id \in EventIds, x \in EventInputs, resp \in AppendResponses :
            \E stored \in StoredChoices(resp) :
                create_event_response(NewEvent(id, x[1], x[2], x[3], now),
                                      resp, stored)
    \/ /\ members = <<>> /\ events = <<>> /\ CountCall
       /\ \E a \in AttendanceInputs(now), resp \in AppendResponses :
            \E stored \in StoredChoices(resp) :
                record_attendance_response(a, resp, stored)

SpecAppendResponse == InitAppendResponse /\ [][NextAppendResponse]_vars

\* A create of the next call returns True exactly when it sent an append
\* request and the response counts an updated row.
TrueIffAppendCounted(r, resp) ==
    r.ret <=> (r.append_sent /\ resp.has_updates /\ resp.updatedRows # NoneInt
               /\ resp.updatedRows > 0)

\* C20 as stated: create_member, create_event and record_attendance return
\* True if and only if the append response reports updates.updatedRows > 0.
C20_Original ==
    \A resp \in AppendResponses : \A stored \in StoredChoices(resp) :
        /\ \A id \in MemberIdsUpTo(now), fn \in FirstNames, ro \in Roles :
            TrueIffAppendCounted(
                CreateMemberResponse(members, NewMember(id, fn, ro, now), now,
                                     resp, stored), resp)
        /\ \A id \in EventIds, x \in EventInputs :
            TrueIffAppendCounted(
                CreateEventResponse(events, NewEvent(id, x[1], x[2], x[3], now),
                                    now, resp, stored), resp)
        /\ \A a \in AttendanceInputs(now) :
            TrueIffAppendCounted(
                RecordAttendanceResponse(attendance, a, now, resp, stored), resp)

\* C20: create_member and create_event return True if and only if they sent
\* an append request and its response reports updates.updatedRows > 0, and so
\* does record_attendance when the tab holds no record of the pair; when it
\* holds one, record_attendance sends no append request and returns what
\* update_attendance returns. An append response without the count, raising
\* nothing, makes each of the three return False.
C20_TrueIffAppendCounted ==
    \A resp \in AppendResponses : \A stored \in StoredChoices(resp) :
        /\ \A id \in MemberIdsUpTo(now), fn \in FirstNames, ro \in Roles :
            TrueIffAppendCounted(
                CreateMemberResponse(members, NewMember(id, fn, ro, now), now,
                                     resp, stored), resp)
        /\ \A id \in EventIds, x \in EventInputs :
            TrueIffAppendCounted(
                CreateEventResponse(events, NewEvent(id, x[1], x[2], x[3], now),
                                    now, resp, stored), resp)
        /\ \A a \in AttendanceInputs(now) :
            LET r == RecordAttendanceResponse(attendance, a, now, resp, stored) IN
            IF get_attendance_record(attendance, a.event_id, a.member_id, now) = <<>>
            THEN r.append_sent /\ TrueIffAppendCounted(r, resp)
            ELSE /\ ~r.append_sent
                 /\ r.ret = UpdateAttendance(attendance, a, now).ret
                 /\ r.sheet = UpdateAttendance(attendance, a, now).sheet

\* C20 witness: record_attendance of a pair the tab holds returned True
\* without sending an append request.
C20_Witness ==
    /\ last.op = "record_attendance"
    /\ last.ret = TRUE /\ ~last.append_sent
    /\ attendance # <<>>

\* The rows of a tab below a header in row 1, or all of them when row 1 is
\* not the header.
BelowHeader(sheet, label) ==
    IF sheet # <<>> /\ sheet[1] # BlankRow /\ sheet[1][1] = label
    THEN Tail(sheet)
    ELSE sheet

\* C21: get_all_members, get_all_events and get_all_attendance return the
\* rows that parse, in tab order, leaving out only a header in row 1 and the
\* rows that fail to parse, wherever the tab has blank rows.
C21_ReadAllSkipsOnlyBadRows ==
    /\ get_all_members(members, now)
         = ParseMembers(BelowHeader(members, "Member ID"), now)
    /\ get_all_events(events, now)
         = ParseEvents(BelowHeader(events, "Event ID"), now)
    /\ get_all_attendance(attendance, now)
         = ParseAttendance(BelowHeader(attendance, "Record ID"), now)

\* The three tabs with their canonical header rows.
TabsWithHeaders ==
    {<<members, MemberHeaders>>, <<events, EventHeaders>>,
     <<attendance, AttendanceHeaders>>}

\* C22: initialize_sheet writes the header row into row 1 exactly when row 1
\* is empty or its first cell is not the first header label, leaves rows 2
\* and below as they are, and a second call right after the first writes
\* nothing and leaves the tab as the first call left it.
C22_InitializeSheetIdempotent ==
    \A x \in TabsWithHeaders :
        LET sheet == x[1]
            first == InitializeSheet(sheet, x[2])
            second == InitializeSheet(first.sheet, x[2])
            stale == sheet = <<>> \/ sheet[1] = BlankRow \/ sheet[1][1] # x[2][1] IN
        /\ first.ret /\ second.ret
        /\ (first.why = "written") <=> stale
        /\ stale => first.sheet[1] = x[2]
        /\ ~stale => first.sheet = sheet
        /\ Len(first.sheet) = IF sheet = <<>> THEN 1 ELSE Len(sheet)
        /\ \A i \in 2..Len(sheet) : first.sheet[i] = sheet[i]
        /\ second.why = "kept"
        /\ second.sheet = first.sheet

\* C22 witness: initialize_sheet was called on a Members tab whose row 1 is
\* the header row, and wrote nothing.
C22_Witness ==
    /\ last.op = "initialize_sheet" /\ last.why = "kept"
    /\ members # <<>> /\ members[1] = MemberHeaders

\* C23: row 1 of the Members, Events and Attendance tabs never holds an
\* entity's row: it is empty or it is the header row, whatever the order of
\* the create and initialize_sheet calls.
C23_RowOneIsHeader ==
    \A x \in TabsWithHeaders :
        x[1] = <<>> \/ x[1][1] = BlankRow \/ x[1][1] = x[2]

\* The items bulk_record_attendance is given in C24: for a member with the
\* default status, with a status outside the enumeration, with a check-in
\* time that is no time of day, and without a member_id.
C24_Items ==
    {[member_id |-> m, status |-> "present", check_in_time |-> None] :
        m \in AttMemberIds}
    \cup {[member_id |-> CHOOSE m \in AttMemberIds : TRUE, status |-> "here",
           check_in_time |-> None],
          [member_id |-> CHOOSE m \in AttMemberIds : TRUE, status |-> "late",
           check_in_time |-> "25:00"],
          [member_id |-> None, status |-> "present", check_in_time |-> None]}

C24_Lists == UNION {[1..n -> C24_Items] : n \in 0..2}

\* Whether record_attendance returns True for item i of the list, called on
\* the tab as the items before it left it.
C24_ItemRecorded(sheet, e, data, i, t) ==
    LET d == data[i]
        before == BulkRecordAttendance(sheet, e, SubSeq(data, 1, i - 1), t).sheet
        a == [record_id |-> generate_record_id(e, d.member_id, t),
              event_id |-> e, member_id |-> d.member_id,
              attendance_status |-> d.status,
              check_in_time |-> d.check_in_time,
              check_out_time |-> None, notes |-> None, recorded_by |-> "system",
              created_at |-> None, updated_at |-> None] IN
    AttendanceValid(a) /\ RecordAttendance(before, AttendancePostInit(a, t), t).ret

\* C24: bulk_record_attendance returns (successful, total) with total the
\* length of the list and successful the number of items whose
\* record_attendance call returned True, the items after a failed item
\* included.
C24_BulkCountsEveryItem ==
    \A e \in AttEventIds, data \in C24_Lists :
        LET r == BulkRecordAttendance(attendance, e, data, now) IN
        /\ r.total = Len(data)
        /\ r.successful \in 0..r.total
        /\ r.successful = Cardinality({i \in 1..Len(data) :
                              C24_ItemRecorded(attendance, e, data, i, now)})

\* C24 witness: a tab on which a list whose first item has no member_id and
\* whose second item is a member without a record gives (1, 2), reached by a
\* bulk_record_attendance call.
C24_Witness ==
    /\ last.op = "bulk_record_attendance"
    /\ \E e \in AttEventIds, m \in AttMemberIds :
        LET data == <<[member_id |-> None, status |-> "present",
                       check_in_time |-> None],
                      [member_id |-> m, status |-> "present",
                       check_in_time |-> None]>>
            r == BulkRecordAttendance(attendance, e, data, now) IN
        /\ get_attendance_record(attendance, e, m, now) = <<>>
        /\ r.successful = 1 /\ r.total = 2

(***************************************************************************)
(* Attendance analytics                                                    *)
(***************************************************************************)

\* Most records on the Attendance tab the analytics are run on.
MaxRecords == 3

AnalyticsEventIds == AttEventIds \cup {"EVT_20240321170000"}

\* Status, check-in and check-out of the records the analytics are run on.
RecordKinds ==
    {<<"present", None, None>>, <<"present", "18:00", "18:00">>,
     <<"present", "18:00", "20:00">>, <<"late", "18:00", "19:00">>,
     <<"late", "18:00", None>>, <<"absent", None, None>>,
     <<"excused", None, None>>}

\* The Attendance tab holding one record per kind of the list under the
\* header row: the first split records are of the first event and the others
\* of the second, the members alternate.
AnalyticsTab(kinds, split) ==
    LET e1 == CHOOSE e \in AttEventIds : TRUE
        e2 == CHOOSE e \in AnalyticsEventIds : e # e1
        m1 == CHOOSE m \in AttMemberIds : TRUE
        m2 == CHOOSE m \in AttMemberIds : m # m1
        rec(i) == LET e == IF i <= split THEN e1 ELSE e2
                      m == IF i % 2 = 1 THEN m1 ELSE m2 IN
                  NewAttendance(generate_record_id(e, m, 0), e, m, kinds[i][1],
                                kinds[i][2], kinds[i][3], None, "admin", 0) IN
    <<AttendanceHeaders>> \o [i \in 1..Len(kinds) |-> AttendanceToRow(rec(i))]

AnalyticsTabs ==
    {AnalyticsTab(k, s) :
        <<k, s>> \in UNION {[1..n -> RecordKinds] \X (0..n) : n \in 0..MaxRecords}}

\* get_all_attendance when the read succeeds (ok) or fails: the except
\* clause returns [].
ReadAllAttendance(sheet, t, ok) ==
    IF ok THEN get_all_attendance(sheet, t) ELSE <<>>

\* AttendanceCRUD.get_attendance_by_event
get_attendance_by_event(sheet, e, t, ok) ==
    SelectSeq(ReadAllAttendance(sheet, t, ok), LAMBDA r : r.event_id = e)

\* AttendanceCRUD.get_attendance_by_member
get_attendance_by_member(sheet, m, t, ok) ==
    SelectSeq(ReadAllAttendance(sheet, t, ok), LAMBDA r : r.member_id = m)

\* len([r for r in records if r.attendance_status == st])
CountStatus(records, st) ==
    Cardinality({i \in 1..Len(records) : records[i].attendance_status = st})

RoundHalfEven_mut(n, d) == n \div d
\* round(n / d, 0) for d > 0: the nearest integer, a tie going to the even
\* one.
RoundHalfEven(n, d) ==
    LET q == n \div d
        r == n % d IN
    IF 2 * r < d THEN q
    ELSE IF 2 * r > d THEN q + 1
    ELSE IF q % 2 = 0 THEN q ELSE q + 1

RECURSIVE SumSeq(_)
SumSeq(xs) == IF xs = <<>> THEN 0 ELSE xs[1] + SumSeq(Tail(xs))

\* "[r.duration_minutes for r in records if r.attendance_status in
\*  ['present', 'late'] and r.duration_minutes]": a duration of None or 0 is
\* falsy and left out.
AttendedDurations(records) ==
    LET kept == SelectSeq(records,
                    LAMBDA r : /\ r.attendance_status \in {"present", "late"}
                               /\ DurationMinutes(r) # NoneInt
                               /\ DurationMinutes(r) # 0) IN
    [i \in 1..Len(kept) |-> DurationMinutes(kept[i])]

\* The summary dict of get_event_attendance_summary for the records of the
\* event. attendance_rate and average_duration are in tenths (round(x, 1)
\* times 10); raised tells whether the call raised.
EventSummary_mut(records) ==
    LET total == Len(records)
        present == CountStatus(records, "present")
        late == CountStatus(records, "late")
        durations == AttendedDurations(records) IN
    [total_records |-> total, present |-> present,
     absent |-> CountStatus(records, "absent"),
     excused |-> CountStatus(records, "excused"), late |-> late,
     attendance_rate |->
        IF total > 0 THEN RoundHalfEven((present + late) * 1000, total) ELSE 0,
     average_duration |->
        IF durations # <<>>
        THEN RoundHalfEven(SumSeq(durations) * 10, Len(durations)) ELSE 0,
     raised |-> total = 0]
EventSummary(records) ==
    LET total == Len(records)
        present == CountStatus(records, "present")
        late == CountStatus(records, "late")
        durations == AttendedDurations(records) IN
    [total_records |-> total, present |-> present,
     absent |-> CountStatus(records, "absent"),
     excused |-> CountStatus(records, "excused"), late |-> late,
     attendance_rate |->
        IF total > 0 THEN RoundHalfEven((present + late) * 1000, total) ELSE 0,
     average_duration |->
        IF total > 0 /\ durations # <<>>
        THEN RoundHalfEven(SumSeq(durations) * 10, Len(durations)) ELSE 0,
     raised |-> FALSE]

\* The stats dict of get_member_attendance_stats for the records of the
\* member; attendance_rate and total_hours in tenths.
MemberStats(records) ==
    LET total == Len(records)
        present == CountStatus(records, "present")
        late == CountStatus(records, "late") IN
    [total_events |-> total, present |-> present,
     absent |-> CountStatus(records, "absent"),
     excused |-> CountStatus(records, "excused"), late |-> late,
     attendance_rate |->
        IF total > 0 THEN RoundHalfEven((present + late) * 1000, total) ELSE 0,
     total_hours |->
        IF total > 0
        THEN RoundHalfEven(SumSeq(AttendedDurations(records)) * 10, 60) ELSE 0,
     raised |-> FALSE]

\* The event ids of the records in the order of their first record, the
\* keys of the defaultdict.
RECURSIVE EventKeys(_, _)
EventKeys(records, seen) ==
    IF records = <<>> THEN <<>>
    ELSE IF records[1].event_id \in seen THEN EventKeys(Tail(records), seen)
    ELSE <<records[1].event_id>>
            \o EventKeys(Tail(records), seen \cup {records[1].event_id})

\* The trends dict of get_attendance_trends: every record of the model was
\* created within days_back. A rate is kept as the pair it is computed from
\* (present_count * 100 over total_count), 0 over 1 standing for the guarded 0.
AttendanceTrends(records) ==
    LET keys == EventKeys(records, {})
        group(k) == SelectSeq(records, LAMBDA r : r.event_id = keys[k])
        attended(k) == CountStatus(group(k), "present") + CountStatus(group(k), "late") IN
    [events_count |-> Len(keys),
     attendance_rates |->
        [k \in 1..Len(keys) |->
            IF Len(group(k)) > 0 THEN <<attended(k) * 100, Len(group(k))>>
            ELSE <<0, 1>>],
     total_attendees |-> [k \in 1..Len(keys) |-> attended(k)],
     dates |-> <<>>,
     raised |-> FALSE]

AnalyticsStep(op, res) ==
    /\ last' = [op |-> op, ret |-> ~res.raised, why |-> "returned", result |-> res]
    /\ UNCHANGED <<members, events, attendance, now, calls>>
    /\ UNCHANGED retryVars

get_event_attendance_summary(e, ok) ==
    AnalyticsStep("get_event_attendance_summary",
                  EventSummary(get_attendance_by_event(attendance, e, now, ok)))

get_member_attendance_stats(m, ok) ==
    AnalyticsStep("get_member_attendance_stats",
                  MemberStats(get_attendance_by_member(attendance, m, now, ok)))

get_attendance_trends(ok) ==
    AnalyticsStep("get_attendance_trends",
                  AttendanceTrends(ReadAllAttendance(attendance, now, ok)))

InitAnalytics ==
    /\ RetryIdle
    /\ members = <<>> /\ events = <<>>
    /\ attendance \in AnalyticsTabs
    /\ now = 0 /\ calls = 0
    /\ last = [op |-> "none", ret |-> FALSE, why |-> "none"]

NextAnalytics ==
    \/ \E e \in AnalyticsEventIds, ok \in BOOLEAN : get_event_attendance_summary(e, ok)
    \/ \E m \in AttMemberIds, ok \in BOOLEAN : get_member_attendance_stats(m, ok)
    \/ \E ok \in BOOLEAN : get_attendance_trends(ok)

SpecAnalytics == InitAnalytics /\ [][NextAnalytics]_vars

\* The number of records of the event with the status in the rows of the tab.
RowsWithStatus(sheet, e, st) ==
    Cardinality({i \in 1..Len(sheet) :
        /\ sheet[i] # BlankRow /\ sheet[i] # AttendanceHeaders
        /\ sheet[i][2] = e /\ sheet[i][4] = st})

\* The counts of the summary are the numbers of records of the event with
\* each status, and they add up to total_records.
SummaryCountsMatch(sheet, e, r) ==
    /\ r.present = RowsWithStatus(sheet, e, "present")
    /\ r.absent = RowsWithStatus(sheet, e, "absent")
    /\ r.excused = RowsWithStatus(sheet, e, "excused")
    /\ r.late = RowsWithStatus(sheet, e, "late")
    /\ r.present + r.absent + r.excused + r.late = r.total_records

C26_ZeroDenominatorsGuarded ==
    \A ok \in BOOLEAN :
        /\ \A e \in AnalyticsEventIds :
            LET records == get_attendance_by_event(attendance, e, now, ok)
                r == EventSummary(records) IN
            /\ ~r.raised
            /\ (~ok \/ records = <<>>) =>
                /\ r.total_records = 0
                /\ r.attendance_rate = 0 /\ r.average_duration = 0
            /\ AttendedDurations(records) = <<>> => r.average_duration = 0
        /\ \A m \in AttMemberIds :
            LET records == get_attendance_by_member(attendance, m, now, ok)
                r == MemberStats(records) IN
            /\ ~r.raised
            /\ (~ok \/ records = <<>>) =>
                /\ r.total_events = 0
                /\ r.attendance_rate = 0 /\ r.total_hours = 0
            /\ AttendedDurations(records) = <<>> => r.total_hours = 0
        /\ LET records == ReadAllAttendance(attendance, now, ok)
               r == AttendanceTrends(records) IN
            /\ ~r.raised
            /\ \A k \in 1..Len(r.attendance_rates) : r.attendance_rates[k][2] > 0
            /\ (~ok \/ records = <<>>) =>
                r.events_count = 0 /\ r.attendance_rates = <<>>

\* C26 witness: the summary of an event without records was returned, with
\* rate and average 0, from a tab that holds records of the other event.
C26_Witness ==
    /\ last.op = "get_event_attendance_summary"
    /\ last.ret = TRUE
    /\ last.result.total_records = 0
    /\ last.result.attendance_rate = 0 /\ last.result.average_duration = 0
    /\ Len(attendance) > 1

\* The durations of the present and late records that have both a check-in
\* and a check-out time, a duration of 0 included.
TimedDurations(records) ==
    LET kept == SelectSeq(records,
                    LAMBDA r : /\ r.attendance_status \in {"present", "late"}
                               /\ r.check_in_time \notin {None, ""}
                               /\ r.check_out_time \notin {None, ""}) IN
    [i \in 1..Len(kept) |-> DurationMinutes(kept[i])]

\* C27: average_duration of get_event_attendance_summary is the mean, rounded
\* to one decimal, of duration_minutes over the present and late records of
\* the event that have both check_in_time and check_out_time, those of
\* duration 0 included.
C27_AverageOverTimedRecords ==
    \A e \in AnalyticsEventIds :
        LET records == get_attendance_by_event(attendance, e, now, TRUE)
            timed == TimedDurations(records) IN
        EventSummary(records).average_duration =
            IF timed = <<>> THEN 0
            ELSE RoundHalfEven(SumSeq(timed) * 10, Len(timed))

(***************************************************************************)
(* AttendanceRecord.duration_minutes on every pair of times                *)
(***************************************************************************)

\* The check-in and check-out values of the records: no time, and times of
\* day from the first to the last minute.
DurationTimes ==
    {None, "", "00:00", "18:00", "18:01", "19:00", "20:00", "21:00", "23:59"}

DurationRecords ==
    {NewAttendance("ATT_1", CHOOSE e \in AttEventIds : TRUE,
                   CHOOSE m \in AttMemberIds : TRUE, "present", ci, co,
                   None, "admin", 0) : ci \in DurationTimes, co \in DurationTimes}

\* record.duration_minutes is read.
duration_minutes ==
    /\ last.op = "constructed"
    /\ last' = [last EXCEPT !.op = "duration_minutes",
                            !.result = DurationMinutes(last.record)]
    /\ UNCHANGED <<members, events, attendance, now, calls>>
    /\ UNCHANGED retryVars

InitDuration ==
    /\ RetryIdle
    /\ members = <<>> /\ events = <<>> /\ attendance = <<>>
    /\ now = 0 /\ calls = 0
    /\ \E a \in DurationRecords :
        last = [op |-> "constructed", ret |-> TRUE, why |-> "none",
                record |-> a, result |-> NoneInt]

NextDuration == duration_minutes

SpecDuration == InitDuration /\ [][NextDuration]_vars

\* C28: duration_minutes is None when check_in_time or check_out_time is
\* missing; otherwise it is check_out minus check_in in minutes modulo 1440,
\* the difference when check_out is not before check_in and the difference
\* plus a day when it is, a number in 0..1439.
C28_DurationModuloOneDay ==
    last.op = "duration_minutes" =>
        LET a == last.record
            d == last.result IN
        IF a.check_in_time \in {None, ""} \/ a.check_out_time \in {None, ""}
        THEN d = NoneInt
        ELSE LET ci == ParseHM(a.check_in_time)
                 co == ParseHM(a.check_out_time) IN
             /\ d \in 0..1439
             /\ d = (co - ci) % 1440
             /\ co >= ci => d = co - ci
             /\ co < ci => d = co - ci + 1440

\* C28 witness: duration_minutes of a record checked in at 23:59 and out at
\* 00:00 was read and is 1.
C28_Witness ==
    /\ last.op = "duration_minutes"
    /\ last.record.check_in_time = "23:59"
    /\ last.record.check_out_time = "00:00"
    /\ last.result = 1

(***************************************************************************)
(* Record stores under failing remote calls                                *)
(***************************************************************************)

\* What _execute_with_retry gives a store for one request: the response
\* ("ok"), an exception after the retries of a transient error are used up
\* ("transient"), an exception raised at once ("permanent"), a dict without
\* the keys the store reads ("no_keys") or a body that is no dict
\* ("not_dict").
RemoteOutcomes == {"ok", "transient", "permanent", "no_keys", "not_dict"}
RemoteFailures == RemoteOutcomes \ {"ok"}

\* The request raised, so the store's except clause runs.
RequestRaises(o) == o \in {"transient", "permanent"}
\* result.get(...) on the response raises or the request did.
ResponseRaises(o) == RequestRaises(o) \/ o = "not_dict"

\* A write request with its outcome and whether the store applied it: an
\* answered request was applied, a raised one was not, and a malformed
\* answer leaves both open.
WriteOutcomes ==
    {[kind |-> "ok", applied |-> TRUE],
     [kind |-> "transient", applied |-> FALSE],
     [kind |-> "permanent", applied |-> FALSE]}
    \cup {[kind |-> k, applied |-> b] : k \in {"no_keys", "not_dict"}, b \in BOOLEAN}

\* The rows a values().get gives when it does not raise: result.get('values', []).
ValuesRead(sheet, o) == IF o = "ok" THEN sheet ELSE <<>>

\* get_all_members under the outcome of its read: [] from the except clause.
GetAllMembersF(sheet, t, o) ==
    IF ResponseRaises(o) THEN <<>> ELSE get_all_members(ValuesRead(sheet, o), t)

\* get_member_by_id under the outcome of its read; <<>> for None.
GetMemberByIdF(sheet, id, t, o) ==
    LET all == GetAllMembersF(sheet, t, o)
        hits == {i \in 1..Len(all) : all[i].member_id = id} IN
    IF hits = {} THEN <<>>
    ELSE <<all[CHOOSE i \in hits : \A j \in hits : i <= j]>>

\* _find_member_row under the outcome of its read; 0 for None.
FindRowF(sheet, id, o) ==
    IF ResponseRaises(o) THEN 0 ELSE FirstMatch(ColumnA(ValuesRead(sheet, o)), id)

\* The result of a write whose response the store inspects
\* (updates.updatedRows, updatedRows or clearedRange).
CheckedWrite(before, after, w, why) ==
    [ret |-> w.kind = "ok", why |-> IF w.kind = "ok" THEN why ELSE w.kind,
     sheet |-> IF w.applied THEN after ELSE before]

\* create_member under the outcomes of its read and its append.
CreateMemberF(sheet, m, t, o, w) ==
    IF GetMemberByIdF(sheet, m.member_id, t, o) # <<>>
    THEN [ret |-> FALSE, why |-> "exists", sheet |-> sheet]
    ELSE CheckedWrite(sheet, AppendRow(sheet, MemberToRow(m)), w, "appended")

\* update_member under the outcomes of its column read and its update.
UpdateMemberF(sheet, m, t, o, w) ==
    LET n == FindRowF(sheet, m.member_id, o) IN
    IF n = 0
    THEN [ret |-> FALSE, why |-> "no row", sheet |-> sheet]
    ELSE CheckedWrite(sheet,
            UpdateRow(sheet, n, MemberToRow([m EXCEPT !.updated_at = IsoFormat(t)])),
            w, "updated")

\* delete_member under the outcomes of its read, column read and update.
DeleteMemberF(sheet, id, t, o0, o, w) ==
    LET found == GetMemberByIdF(sheet, id, t, o0) IN
    IF found = <<>>
    THEN [ret |-> FALSE, why |-> "not found", sheet |-> sheet]
    ELSE UpdateMemberF(sheet, [found[1] EXCEPT !.membership_status = "inactive",
                                              !.updated_at = IsoFormat(t)], t, o, w)

\* initialize_sheet under the outcomes of its read and its update; the
\* update's response is not looked at.
InitializeSheetF(sheet, headers, o, w) ==
    IF ResponseRaises(o)
    THEN [ret |-> FALSE, why |-> o, sheet |-> sheet]
    ELSE LET values == ValuesRead(sheet, o) IN
         IF values = <<>> \/ values[1] = BlankRow \/ values[1][1] # headers[1]
         THEN [ret |-> ~RequestRaises(w.kind),
               why |-> IF RequestRaises(w.kind) THEN w.kind ELSE "written",
               sheet |-> IF w.applied THEN UpdateRow(sheet, 1, headers) ELSE sheet]
         ELSE [ret |-> TRUE, why |-> "kept", sheet |-> sheet]

\* delete_attendance_record under the outcomes of its column read and its
\* clear.
DeleteAttendanceRecordF(sheet, id, o, w) ==
    LET n == FindRowF(sheet, id, o) IN
    IF n = 0
    THEN [ret |-> FALSE, why |-> "no row", sheet |-> sheet]
    ELSE CheckedWrite(sheet, ClearRow(sheet, n), w, "cleared")

MemberStepF(op, r) ==
    /\ Len(r.sheet) <= MaxMemberRows
    /\ members' = r.sheet
    /\ last' = [op |-> op, ret |-> r.ret, why |-> r.why]
    /\ UNCHANGED <<events, attendance, now>>
    /\ UNCHANGED retryVars

create_member_f(m, o, w) ==
    MemberStepF("create_member", CreateMemberF(members, m, now, o, w))

update_member_f(m, o, w) ==
    MemberStepF("update_member", UpdateMemberF(members, m, now, o, w))

delete_member_f(id, o0, o, w) ==
    MemberStepF("delete_member", DeleteMemberF(members, id, now, o0, o, w))

initialize_members_sheet_f(o, w) ==
    MemberStepF("initialize_sheet", InitializeSheetF(members, MemberHeaders, o, w))

get_all_members_f(o) ==
    MemberStepF("get_all_members",
        [ret |-> GetAllMembersF(members, now, o) # <<>>,
         why |-> o, sheet |-> members])

get_member_by_id_f(id, o) ==
    MemberStepF("get_member_by_id",
        [ret |-> GetMemberByIdF(members, id, now, o) # <<>>,
         why |-> o, sheet |-> members])

delete_attendance_record_f(id, o, w) ==
    LET r == DeleteAttendanceRecordF(attendance, id, o, w) IN
    /\ attendance' = r.sheet
    /\ last' = [op |-> "delete_attendance_record", ret |-> r.ret, why |-> r.why]
    /\ UNCHANGED <<members, events, now>>
    /\ UNCHANGED retryVars

InitFailures == RetryIdle /\ StoreEmpty

NextFailures ==
    \/ Tick
    \/ /\ events = <<>> /\ attendance = <<>> /\ CountCall
       /\ \E o \in RemoteOutcomes, w \in WriteOutcomes :
            \/ \E id \in MemberIdsUpTo(now), fn \in FirstNames, r \in Roles :
                    create_member_f(NewMember(id, fn, r, now), o, w)
            \/ \E m \in UpdateMemberInputs(members, now) : update_member_f(m, o, w)
            \/ \E id \in MemberIdsUpTo(now), o0 \in RemoteOutcomes :
                    delete_member_f(id, o0, o, w)
            \/ initialize_members_sheet_f(o, w)
            \/ get_all_members_f(o)
            \/ \E id \in MemberIdsUpTo(now) : get_member_by_id_f(id, o)
    \/ /\ members = <<>> /\ events = <<>>
       /\ \/ \E a \in AttendanceInputs(now) : record_attendance(a)
          \/ /\ CountCall
             /\ \E id \in DeleteInputs(attendance),
                   o \in RemoteOutcomes, w \in WriteOutcomes :
                    delete_attendance_record_f(id, o, w)

SpecFailures == InitFailures /\ [][NextFailures]_vars

\* The members create_member and update_member are called with in a state.
MemberArguments ==
    {NewMember(id, fn, r, now) :
        id \in MemberIdsUpTo(now), fn \in FirstNames, r \in Roles}
    \cup UpdateMemberInputs(members, now)

\* The part of C29 the stores keep: a failed read makes get_all_members
\* return [] and get_member_by_id None, update_member, delete_member and
\* delete_attendance_record return False when any of their requests fails,
\* create_member returns False when its append fails, and initialize_sheet
\* returns False when a request of it raises.
FailedRequestsContained ==
    /\ \A o \in RemoteFailures :
        /\ GetAllMembersF(members, now, o) = <<>>
        /\ \A id \in MemberIdsUpTo(now) : GetMemberByIdF(members, id, now, o) = <<>>
    /\ \A o \in RemoteOutcomes, w \in WriteOutcomes :
        (o # "ok" \/ w.kind # "ok") =>
            /\ \A m \in MemberArguments :
                /\ UpdateMemberF(members, m, now, o, w).ret = FALSE
                /\ w.kind # "ok" => CreateMemberF(members, m, now, o, w).ret = FALSE
            /\ \A id \in MemberIdsUpTo(now), o0 \in RemoteOutcomes :
                DeleteMemberF(members, id, now, o0, o, w).ret = FALSE
            /\ \A id \in DeleteInputs(attendance) :
                DeleteAttendanceRecordF(attendance, id, o, w).ret = FALSE
            /\ (\/ ResponseRaises(o)
                \/ /\ o = "ok" /\ RequestRaises(w.kind)
                   /\ InitializeSheet(members, MemberHeaders).why = "written") =>
                InitializeSheetF(members, MemberHeaders, o, w).ret = FALSE

\* C29: when a remote call of an operation fails (raises after the retries,
\* raises at once, or answers with a malformed body), create_member,
\* update_member, delete_member, initialize_sheet and
\* delete_attendance_record return False, get_all_members returns [] and
\* get_member_by_id returns None.
C29_FailuresReturnFalse ==
    /\ FailedRequestsContained
    /\ \A o \in RemoteOutcomes, w \in WriteOutcomes :
        /\ o # "ok" =>
            /\ \A m \in MemberArguments :
                CreateMemberF(members, m, now, o, w).ret = FALSE
            /\ InitializeSheetF(members, MemberHeaders, o, w).ret = FALSE
        /\ (o = "ok" /\ w.kind # "ok" /\ InitializeSheet(members, MemberHeaders).why = "written") =>
            InitializeSheetF(members, MemberHeaders, o, w).ret = FALSE

\* C30: no two rows of the Members tab carry the same member_id, also after
\* create_member calls whose existence-check read failed: create_member of a
\* stored member_id returns False and appends nothing.
C30_FailedReadAppendsNoDuplicate ==
    /\ \A i, j \in 1..Len(members) :
        (i < j /\ members[i] # BlankRow /\ members[j] # BlankRow) =>
            members[i][1] # members[j][1]
    /\ \A m \in MemberArguments, o \in RemoteOutcomes, w \in WriteOutcomes :
        find_member_row(members, m.member_id) # 0 =>
            LET r == CreateMemberF(members, m, now, o, w) IN
            r.ret = FALSE /\ r.sheet = members

(***************************************************************************)
(* create_event under failing reads                                        *)
(***************************************************************************)

\* get_all_events under the outcome of its read: [] from the except clause.
GetAllEventsF(sheet, t, o) ==
    IF ResponseRaises(o) THEN <<>> ELSE get_all_events(ValuesRead(sheet, o), t)

\* _check_event_conflict under the outcome of the read of its scan.
CheckEventConflictF_mut(sheet, new, t, o) ==
    \/ o # "ok"
    \/ check_event_conflict(sheet, new, t)
CheckEventConflictF(sheet, new, t, o) ==
    LET all == GetAllEventsF(sheet, t, o) IN
    \E i \in 1..Len(all) :
        /\ all[i].event_date = new.event_date
        /\ ~SkipsEvent(all[i])
        /\ TimesOverlap(ParseHM(new.start_time), ParseHM(new.end_time),
                        ParseHM(all[i].start_time), ParseHM(all[i].end_time))

\* create_event under the outcomes of the read of its existence check, the
\* read of its conflict scan and its append.
CreateEventF(sheet, e, t, o1, o2, w) ==
    IF \E i \in 1..Len(GetAllEventsF(sheet, t, o1)) :
            GetAllEventsF(sheet, t, o1)[i].event_id = e.event_id
    THEN [ret |-> FALSE, why |-> "exists", sheet |-> sheet]
    ELSE IF CheckEventConflictF(sheet, e, t, o2)
    THEN [ret |-> FALSE, why |-> "conflict", sheet |-> sheet]
    ELSE CheckedWrite(sheet, AppendRow(sheet, EventToRow(e)), w, "appended")

create_event_f(e, o1, o2, w) ==
    LET r == CreateEventF(events, e, now, o1, o2, w) IN
    /\ Len(r.sheet) <= MaxEventRows
    /\ events' = r.sheet
    /\ last' = [op |-> "create_event", ret |-> r.ret, why |-> r.why, scan |-> o2]
    /\ UNCHANGED <<members, attendance, now>>
    /\ UNCHANGED retryVars

InitEventFailures ==
    /\ RetryIdle
    /\ members = <<>> /\ events = <<>> /\ attendance = <<>>
    /\ now = 0 /\ calls = 0
    /\ last = [op |-> "none", ret |-> FALSE, why |-> "none", scan |-> "ok"]

NextEventFailures ==
    \/ Tick
    \/ /\ CountCall
       /\ \E id \in EventIds, x \in EventInputs,
             o1 \in {"ok"}, o2 \in {"ok", "transient"},
             w \in {v \in WriteOutcomes : v.kind = "ok"} :
                create_event_f(NewEvent(id, x[1], x[2], x[3], now), o1, o2, w)
    \/ /\ CountCall
       /\ \E id \in EventIds : delete_event(id)

SpecEventFailures == InitEventFailures /\ [][NextEventFailures]_vars

\* C31: when the read of the conflict scan fails, _check_event_conflict
\* reports no conflict, and create_event of a new event_id appends the event
\* and returns True even if a stored event of the same date that is not
\* cancelled overlaps it.
C31_ConflictCheckDegradesOpen ==
    \A id \in EventIds, x \in EventInputs, o2 \in RemoteFailures :
        LET e == NewEvent(id, x[1], x[2], x[3], now)
            r == CreateEventF(events, e, now, "ok", o2,
                              [kind |-> "ok", applied |-> TRUE]) IN
        /\ ~CheckEventConflictF(events, e, now, o2)
        /\ get_event_by_id(events, id, now) = <<>> =>
            /\ r.ret = TRUE
            /\ r.sheet = AppendRow(events, EventToRow(e))

\* C31 witness: a create_event whose conflict scan failed returned True and
\* the tab now holds two events of one date, neither cancelled, whose
\* windows overlap.
C31_Witness ==
    /\ last.op = "create_event" /\ last.ret = TRUE /\ last.scan # "ok"
    /\ Len(events) = 2
    /\ events[1][4] = events[2][4]
    /\ events[1][12] # "cancelled" /\ events[2][12] # "cancelled"
    /\ ParseHM(events[1][5]) < ParseHM(events[2][6])
    /\ ParseHM(events[1][6]) > ParseHM(events[2][5])

(***************************************************************************)
(* update_event changing the window or the status                          *)
(***************************************************************************)

\* The calls of one behaviour of the window updates.
MaxEventCalls == 3

\* The events a caller passes to update_event after reading them from the
\* tab and moving the window to 19:00-21:00 or setting the status back to
\* scheduled.
WindowUpdateInputs(sheet, t) ==
    LET all == get_all_events(sheet, t) IN
    {[all[i] EXCEPT !.start_time = "19:00", !.end_time = "21:00"] : i \in 1..Len(all)}
        \cup {[all[i] EXCEPT !.status = "scheduled"] : i \in 1..Len(all)}

NextEventWindows ==
    \/ Tick
    \/ /\ calls < MaxEventCalls /\ calls' = calls + 1
       /\ \/ \E id \in EventIds, x \in EventInputs :
                create_event(NewEvent(id, x[1], x[2], x[3], now))
          \/ \E id \in EventIds : delete_event(id)
          \/ \E e \in WindowUpdateInputs(events, now) : update_event(e)

SpecEventWindows == InitStore /\ [][NextEventWindows]_vars

\* Two rows of the tab hold events of one date, neither cancelled, whose
\* windows overlap.
OverlapOnTab(sheet) ==
    \E i, j \in 1..Len(sheet) :
        /\ i # j
        /\ sheet[i] # BlankRow /\ sheet[j] # BlankRow
        /\ sheet[i][1] # "Event ID" /\ sheet[j][1] # "Event ID"
        /\ sheet[i][4] = sheet[j][4]
        /\ sheet[i][12] # "cancelled" /\ sheet[j][12] # "cancelled"
        /\ ParseHM(sheet[i][5]) < ParseHM(sheet[j][6])
        /\ ParseHM(sheet[i][6]) > ParseHM(sheet[j][5])

\* C32: update_event of a stored event returns True and rewrites its row
\* with the event it is given, whether or not the new window or status makes
\* it overlap another event of the same date that is not cancelled.
C32_UpdateEventSkipsConflictCheck ==
    \A e \in WindowUpdateInputs(events, now) :
        LET r == UpdateEvent(events, e, now)
            n == find_event_row(events, e.event_id) IN
        n # 0 =>
            /\ r.ret = TRUE
            /\ r.sheet = UpdateRow(events, n,
                            EventToRow([e EXCEPT !.updated_at = IsoFormat(now)]))

\* C32 witness: an update_event returned True and left two overlapping events
\* of one date, neither cancelled, on the tab.
C32_Witness ==
    /\ last.op = "update_event" /\ last.ret = TRUE
    /\ OverlapOnTab(events)

(***************************************************************************)
(* Two callers creating one identifier concurrently                        *)
(***************************************************************************)

\* The member each caller passes to create_member: one member_id, two people.
RaceMemberId == generate_member_id(0)
RaceMember(c) ==
    NewMember(RaceMemberId, IF c = "A" THEN "Ann" ELSE "Bob", "member", 0)

\* The pair both callers check in.
RaceEventId == "EVT_20240320170000"
RacePairMember == "MBR_20240320170000"

\* values().append of one row: the store adds the row after the last row with
\* a value; it knows no key and refuses nothing.
AppendRequest_mut(sheet, row) ==
    IF FirstMatch(ColumnA(sheet), row[1]) # 0 \/ PairRows(sheet, row[2], row[3]) # {}
    THEN sheet ELSE AppendRow(sheet, row)
AppendRequest(sheet, row) == AppendRow(sheet, row)

RacerStart == [pc |-> "start", early |-> FALSE, ret |-> FALSE, row |-> 0,
               record |-> NewAttendance("ATT_none", RaceEventId, RacePairMember,
                                        "present", None, None, None, "system", 0)]

SetRacer(c, st, op) ==
    last' = [last EXCEPT !.op = op, !.racers[c] = st]

RaceFrame ==
    /\ UNCHANGED <<events, now, calls>>
    /\ UNCHANGED retryVars

\* create_member, first remote call: get_member_by_id(member.member_id) reads
\* the tab and scans it; a hit returns False. early records that no racer's
\* append had reached the store when the check passed.
race_check(c) ==
    LET st == last.racers[c] IN
    /\ last.kind = "create_member" /\ st.pc = "start"
    /\ SetRacer(c, IF get_member_by_id(members, RaceMemberId, now) # <<>>
                   THEN [st EXCEPT !.pc = "done", !.ret = FALSE]
                   ELSE [st EXCEPT !.pc = "checked",
                                   !.early = (last.appends = <<>>)], "check")
    /\ UNCHANGED <<members, attendance>>
    /\ RaceFrame

\* create_member, second remote call: the append reaches the store, reports
\* updatedRows = 1, and the call returns True.
race_append(c) ==
    LET st == last.racers[c] IN
    /\ last.kind = "create_member" /\ st.pc = "checked"
    /\ members' = AppendRequest(members, MemberToRow(RaceMember(c)))
    /\ last' = [last EXCEPT !.op = "append",
                            !.racers[c] = [st EXCEPT !.pc = "done", !.ret = TRUE],
                            !.appends = Append(@, c)]
    /\ UNCHANGED attendance
    /\ RaceFrame

\* check_in_member, first remote call: get_attendance_record(e, m). A hit is
\* changed and goes to update_attendance; otherwise a new record is built and
\* goes to record_attendance.
checkin_read(c) ==
    LET st == last.racers[c]
        found == get_attendance_record(attendance, RaceEventId, RacePairMember, now) IN
    /\ last.kind = "check_in_member" /\ st.pc = "start"
    /\ SetRacer(c,
            IF found # <<>>
            THEN [st EXCEPT !.pc = "update",
                            !.record = [found[1] EXCEPT
                                            !.attendance_status = "present",
                                            !.check_in_time = ClockHM(now),
                                            !.recorded_by = "system"]]
            ELSE [st EXCEPT !.pc = "record",
                            !.record = NewAttendance(
                                generate_record_id(RaceEventId, RacePairMember, now),
                                RaceEventId, RacePairMember, "present",
                                ClockHM(now), None, None, "system", now)],
            "read")
    /\ UNCHANGED <<members, attendance>>
    /\ RaceFrame

\* record_attendance, first remote call: its own get_attendance_record; a hit
\* sends the new record to update_attendance.
checkin_recheck(c) ==
    LET st == last.racers[c] IN
    /\ last.kind = "check_in_member" /\ st.pc = "record"
    /\ SetRacer(c,
            IF get_attendance_record(attendance, RaceEventId, RacePairMember, now) # <<>>
            THEN [st EXCEPT !.pc = "update"]
            ELSE [st EXCEPT !.pc = "checked", !.early = (last.appends = <<>>)],
            "recheck")
    /\ UNCHANGED <<members, attendance>>
    /\ RaceFrame

\* record_attendance, second remote call: the append.
checkin_append(c) ==
    LET st == last.racers[c] IN
    /\ last.kind = "check_in_member" /\ st.pc = "checked"
    /\ attendance' = AppendRequest(attendance, AttendanceToRow(st.record))
    /\ last' = [last EXCEPT !.op = "append",
                            !.racers[c] = [st EXCEPT !.pc = "done", !.ret = TRUE],
                            !.appends = Append(@, c)]
    /\ UNCHANGED members
    /\ RaceFrame

\* update_attendance, first remote call: _find_attendance_row(record_id);
\* None returns False, otherwise updated_at is stamped.
checkin_locate(c) ==
    LET st == last.racers[c]
        n == find_attendance_row(attendance, st.record.record_id) IN
    /\ last.kind = "check_in_member" /\ st.pc = "update"
    /\ SetRacer(c, IF n = 0 THEN [st EXCEPT !.pc = "done", !.ret = FALSE]
                   ELSE [st EXCEPT !.pc = "located", !.row = n,
                                   !.record.updated_at = IsoFormat(now)], "locate")
    /\ UNCHANGED <<members, attendance>>
    /\ RaceFrame

\* update_attendance, second remote call: the row is rewritten.
checkin_write(c) ==
    LET st == last.racers[c] IN
    /\ last.kind = "check_in_member" /\ st.pc = "located"
    /\ attendance' = UpdateRow(attendance, st.row, AttendanceToRow(st.record))
    /\ SetRacer(c, [st EXCEPT !.pc = "done", !.ret = TRUE], "write")
    /\ UNCHANGED members
    /\ RaceFrame

InitCreateRace ==
    /\ RetryIdle
    /\ events = <<>> /\ now = 0 /\ calls = 0
    /\ \E k \in {"create_member", "check_in_member"} :
        /\ members \in (IF k = "create_member"
                        THEN {<<>>, <<MemberHeaders>>,
                              <<MemberHeaders, MemberToRow(OtherMember)>>}
                        ELSE {<<>>})
        /\ attendance \in (IF k = "check_in_member"
                           THEN {<<>>, <<AttendanceHeaders>>} ELSE {<<>>})
        /\ last = [op |-> "none", ret |-> FALSE, why |-> "none", kind |-> k,
                   racers |-> [c \in Callers |-> RacerStart], appends |-> <<>>]

NextCreateRace ==
    \/ Tick
    \/ \E c \in Callers :
        \/ race_check(c)
        \/ race_append(c)
        \/ checkin_read(c)
        \/ checkin_recheck(c)
        \/ checkin_append(c)
        \/ checkin_locate(c)
        \/ checkin_write(c)

SpecCreateRace == InitCreateRace /\ [][NextCreateRace]_vars

\* Both calls have returned, and each passed its existence check before any
\* append had reached the store.
BothPassedBeforeAppend ==
    \A c \in Callers : last.racers[c].pc = "done" /\ last.racers[c].early

\* The rows of the Members tab whose first cell is the identifier.
RowsWithId(sheet, id) ==
    {i \in 1..Len(sheet) : sheet[i] # BlankRow /\ sheet[i][1] = id}

\* C33: when two concurrent create_member calls with one member_id, or two
\* concurrent check_in_member calls for one pair, both pass the existence
\* check before either appends, both return True and the tab ends with two
\* rows of that identifier, resp. of that pair.
C33_ConcurrentCreateDuplicates ==
    BothPassedBeforeAppend =>
        /\ \A c \in Callers : last.racers[c].ret = TRUE
        /\ last.kind = "create_member" =>
                Cardinality(RowsWithId(members, RaceMemberId)) = 2
        /\ last.kind = "check_in_member" =>
                Cardinality(PairRows(attendance, RaceEventId, RacePairMember)) = 2

\* C33 witness: two create_member calls for different people with one
\* member_id both returned True after both checks preceded both appends, and
\* the tab holds both rows.
C33_Witness ==
    /\ BothPassedBeforeAppend
    /\ last.kind = "create_member"
    /\ Len(last.appends) = 2
    /\ \A c \in Callers : last.racers[c].ret = TRUE
    /\ \E i, j \in RowsWithId(members, RaceMemberId) :
            members[i][2] = "Ann" /\ members[j][2] = "Bob"

\* The same interleaving of two check_in_member calls for one pair: both
\* returned True and two rows carry the pair.
CheckInRaceReached ==
    /\ BothPassedBeforeAppend
    /\ last.kind = "check_in_member"
    /\ \A c \in Callers : last.racers[c].ret = TRUE
    /\ Cardinality(PairRows(attendance, RaceEventId, RacePairMember)) = 2

(***************************************************************************)
(* Identifiers generated in the same second                                *)
(***************************************************************************)

\* generate_member_id() called by caller c at tick t: the function takes no
\* argument and reads nothing but the clock, so the caller does not matter.
GeneratedMemberId_mut(c, t) == generate_member_id(t) \o "_" \o c
GeneratedMemberId(c, t) == generate_member_id(t)

PersonOf(c) == IF c = "A" THEN "Ann" ELSE "Bob"

GeneratorStart == [pc |-> "start", tick |-> 0, member_id |-> None,
                   event_id |-> None, record_id |-> None, ret |-> FALSE]

\* The caller generates its identifiers at the current tick.
generate_ids(c) ==
    LET st == last.gens[c] IN
    /\ st.pc = "start"
    /\ last' = [last EXCEPT !.op = "generate",
                    !.gens[c] = [st EXCEPT
                        !.pc = "generated", !.tick = now,
                        !.member_id = GeneratedMemberId(c, now),
                        !.event_id = generate_event_id(now),
                        !.record_id = generate_record_id(RaceEventId,
                                                         RacePairMember, now)]]
    /\ UNCHANGED <<members, events, attendance, now, calls>>
    /\ UNCHANGED retryVars

\* create_member(Member(member_id=<generated id>, first_name=<the caller's
\* person>, ...)), every remote call succeeding.
create_generated(c) ==
    LET st == last.gens[c]
        r == CreateMember(members,
                          NewMember(st.member_id, PersonOf(c), "member", now), now) IN
    /\ st.pc = "generated"
    /\ members' = r.sheet
    /\ last' = [last EXCEPT !.op = "create_member", !.ret = r.ret, !.why = r.why,
                            !.gens[c] = [st EXCEPT !.pc = "done", !.ret = r.ret],
                            !.order = Append(@, c)]
    /\ UNCHANGED <<events, attendance, now, calls>>
    /\ UNCHANGED retryVars

InitIdClash ==
    /\ RetryIdle
    /\ members \in {<<>>, <<MemberHeaders>>,
                    <<MemberHeaders, MemberToRow(OtherMember)>>}
    /\ events = <<>> /\ attendance = <<>>
    /\ now = 0 /\ calls = 0
    /\ last = [op |-> "none", ret |-> FALSE, why |-> "none",
               gens |-> [c \in Callers |-> GeneratorStart], order |-> <<>>]

NextIdClash ==
    \/ Tick
    \/ \E c \in Callers : generate_ids(c)
    \/ \E c \in Callers : create_generated(c)

SpecIdClash == InitIdClash /\ [][NextIdClash]_vars

MaxUpdates == 2

FlowKinds == {"member", "event", "attendance"}

FlowTab(k) ==
    IF k = "member" THEN members ELSE IF k = "event" THEN events ELSE attendance

FlowHeaders(k) ==
    IF k = "member" THEN MemberHeaders
    ELSE IF k = "event" THEN EventHeaders ELSE AttendanceHeaders

\* The id of the entity the flows of kind k work on.
FlowId(k) ==
    IF k = "member" THEN SharedMemberId
    ELSE IF k = "event" THEN generate_event_id(0)
    ELSE generate_record_id(RaceEventId, RacePairMember, 0)

\* create_member, create_event or record_attendance with an entity the caller
\* constructs at tick t.
FlowCreate(k, sheet, t) ==
    IF k = "member"
    THEN CreateMember(sheet, NewMember(FlowId(k), "Ann", "member", t), t)
    ELSE IF k = "event"
    THEN CreateEvent(sheet, NewEvent(FlowId(k), "2024-03-20",
                                     <<"18:00", "20:00">>, "scheduled", t), t)
    ELSE RecordAttendance(sheet,
            NewAttendance(FlowId(k), RaceEventId, RacePairMember, "present",
                          "18:00", None, None, "admin", t), t)

\* get_member_by_id, get_event_by_id or get_attendance_record at tick t.
FlowRead(k, sheet, t) ==
    IF k = "member" THEN get_member_by_id(sheet, FlowId(k), t)
    ELSE IF k = "event" THEN get_event_by_id(sheet, FlowId(k), t)
    ELSE get_attendance_record(sheet, RaceEventId, RacePairMember, t)

\* The field the caller assigns on the entity it has read.
FlowChange(k, e, v) ==
    IF k = "member" THEN [e EXCEPT !.payment_status = IF v THEN "paid" ELSE "overdue"]
    ELSE IF k = "event" THEN [e EXCEPT !.location = IF v THEN "Field B" ELSE "Gym"]
    ELSE [e EXCEPT !.notes = IF v THEN "left early" ELSE None]

\* update_member, update_event or update_attendance at tick t.
FlowUpdate(k, sheet, e, t) ==
    IF k = "member" THEN UpdateMember(sheet, e, t)
    ELSE IF k = "event" THEN UpdateEvent(sheet, e, t)
    ELSE UpdateAttendance(sheet, e, t)

\* The created_at and updated_at cells of the stored row of the entity.
FlowStamps(k, sheet) ==
    LET n == FirstMatch(ColumnA(sheet), FlowId(k))
        w == Len(FlowHeaders(k)) IN
    IF n = 0 THEN <<None, None>> ELSE <<sheet[n][w - 1], sheet[n][w]>>

\* The tick an isoformat() string of the model was taken at.
TickOf(s) == CHOOSE u \in 0..MaxClock : IsoFormat(u) = s

SetFlowTab(k, sheet) ==
    /\ members' = IF k = "member" THEN sheet ELSE members
    /\ events' = IF k = "event" THEN sheet ELSE events
    /\ attendance' = IF k = "attendance" THEN sheet ELSE attendance

flow_create ==
    LET r == FlowCreate(last.kind, FlowTab(last.kind), now) IN
    /\ last.pc = "empty"
    /\ SetFlowTab(last.kind, r.sheet)
    /\ last' = [last EXCEPT !.op = "create", !.ret = r.ret, !.why = r.why,
                            !.pc = "idle"]
    /\ UNCHANGED <<now, calls>>
    /\ UNCHANGED retryVars

flow_read ==
    LET found == FlowRead(last.kind, FlowTab(last.kind), now) IN
    /\ last.pc = "idle" /\ last.updates < MaxUpdates
    /\ found # <<>>
    /\ last' = [last EXCEPT !.op = "read", !.pc = "held", !.held = found]
    /\ UNCHANGED <<members, events, attendance, now, calls>>
    /\ UNCHANGED retryVars

flow_change(v) ==
    /\ last.pc = "held"
    /\ last' = [last EXCEPT !.op = "change", !.pc = "changed",
                            !.held = <<FlowChange(last.kind, last.held[1], v)>>]
    /\ UNCHANGED <<members, events, attendance, now, calls>>
    /\ UNCHANGED retryVars

\* The update call; before and at keep the stamps stored before the call and
\* the tick of the call.
flow_update ==
    LET r == FlowUpdate(last.kind, FlowTab(last.kind), last.held[1], now) IN
    /\ last.pc = "changed"
    /\ SetFlowTab(last.kind, r.sheet)
    /\ last' = [last EXCEPT !.op = "update", !.ret = r.ret, !.why = r.why,
                            !.pc = "idle", !.held = <<>>,
                            !.before = FlowStamps(last.kind, FlowTab(last.kind)),
                            !.at = now, !.updates = @ + 1]
    /\ UNCHANGED <<now, calls>>
    /\ UNCHANGED retryVars

InitFlows ==
    /\ RetryIdle
    /\ now = 0 /\ calls = 0
    /\ \E k \in FlowKinds, h \in BOOLEAN :
        /\ members = IF k = "member" /\ h THEN <<MemberHeaders>> ELSE <<>>
        /\ events = IF k = "event" /\ h THEN <<EventHeaders>> ELSE <<>>
        /\ attendance = IF k = "attendance" /\ h THEN <<AttendanceHeaders>> ELSE <<>>
        /\ last = [op |-> "none", ret |-> FALSE, why |-> "none", kind |-> k,
                   pc |-> "empty", held |-> <<>>, before |-> <<None, None>>,
                   at |-> 0, updates |-> 0]

NextFlows ==
    \/ Tick
    \/ flow_create
    \/ flow_read
    \/ \E v \in BOOLEAN : flow_change(v)
    \/ flow_update

SpecFlows == InitFlows /\ [][NextFlows]_vars

\* C35: after every update that returned True in a flow that read the entity
\* from the tab and changed one of its fields, the stored created_at is the
\* one stored before the call, and the stored updated_at is the time of the
\* call and not earlier than the updated_at stored before it.
C35_TimestampsAcrossUpdates ==
    (last.op = "update" /\ last.ret) =>
        LET after == FlowStamps(last.kind, FlowTab(last.kind)) IN
        /\ after[1] = last.before[1]
        /\ after[1] # None /\ after[1] # ""
        /\ after[2] = IsoFormat(last.at)
        /\ TickOf(last.before[2]) <= last.at

\* C35 witness: the second update of a flow returned True at a later tick
\* than the entity was created at.
C35_Witness ==
    /\ last.op = "update" /\ last.ret
    /\ last.updates = 2
    /\ last.at > TickOf(FlowStamps(last.kind, FlowTab(last.kind))[1])

(***************************************************************************)
(* check_out_member                                                        *)
(***************************************************************************)

\* The first row of the tab that holds a record of the pair, 0 for none.
FirstPairRow(sheet, e, m) ==
    IF PairRows(sheet, e, m) = {} THEN 0
    ELSE CHOOSE i \in PairRows(sheet, e, m) : \A j \in PairRows(sheet, e, m) : i <= j

\* The tab with the check_out_time and updated_at cells of row n set.
CheckedOut(sheet, n, t) ==
    [sheet EXCEPT ![n] = [Pad(sheet[n], 10) EXCEPT ![6] = ClockHM(t),
                                                   ![10] = IsoFormat(t)]]

\* C36: check_out_member(e, m) adds no row; with no record of the pair on the
\* tab it returns False and leaves the tab as it is; with a record of the
\* pair it returns True and changes nothing but the check_out_time and
\* updated_at cells of that record's row.
C36_CheckOutSetsOnlyCheckOutTime ==
    \A e \in AttEventIds, m \in AttMemberIds :
        LET r == CheckOutMember(attendance, e, m, now)
            n == FirstPairRow(attendance, e, m) IN
        /\ Len(r.sheet) = Len(attendance)
        /\ n = 0 => r.ret = FALSE /\ r.sheet = attendance
        /\ n # 0 => r.ret = TRUE /\ r.sheet = CheckedOut(attendance, n, now)

(***************************************************************************)
(* Row discovery and the read path                                         *)
(***************************************************************************)

\* The identifier strings the two paths are compared on: every first cell of
\* a row of the tab, and one identifier that no row holds.
IdStrings(sheet) ==
    {sheet[i][1] : i \in {j \in 1..Len(sheet) : sheet[j] # BlankRow}}
        \cup {"ID_unknown"}

\* The record ids get_all_attendance returns.
ReadableRecordIds(sheet, t) ==
    LET all == get_all_attendance(sheet, t) IN
    {all[i].record_id : i \in 1..Len(all)}

\* C37: on every tab and for every identifier string, _find_member_row
\* returns a row number exactly when get_member_by_id returns a member;
\* likewise _find_event_row and get_event_by_id, and _find_attendance_row and
\* the records get_all_attendance returns.
C37_FindRowAgreesWithRead ==
    /\ \A id \in IdStrings(members) :
        find_member_row(members, id) # 0 <=> get_member_by_id(members, id, now) # <<>>
    /\ \A id \in IdStrings(events) :
        find_event_row(events, id) # 0 <=> get_event_by_id(events, id, now) # <<>>
    /\ \A id \in IdStrings(attendance) :
        find_attendance_row(attendance, id) # 0
            <=> id \in ReadableRecordIds(attendance, now)

(***************************************************************************)
(* initialize_sheet and the stored records                                 *)
(***************************************************************************)

\* The set of the elements of a sequence.
Range(seq) == {seq[i] : i \in 1..Len(seq)}

\* C38: on every tab, the set of records read_all returns after
\* initialize_sheet is the set it returns before it.
C38_InitializeSheetKeepsRecords ==
    /\ Range(get_all_members(InitializeSheet(members, MemberHeaders).sheet, now))
         = Range(get_all_members(members, now))
    /\ Range(get_all_events(InitializeSheet(events, EventHeaders).sheet, now))
         = Range(get_all_events(events, now))
    /\ Range(get_all_attendance(InitializeSheet(attendance, AttendanceHeaders).sheet, now))
         = Range(get_all_attendance(attendance, now))

====
